---- MODULE Spec2Model ----
(***************************************************************************)
(* A model of go-llm-lens: the Indexer (internal/indexer), which loads a   *)
(* Go codebase and builds the in-memory symbol snapshot, and the Finder    *)
(* and tool handlers (internal/finder, internal/tools), which answer       *)
(* queries against that snapshot.                                          *)
(*                                                                         *)
(* Names, paths and signatures are TLA+ strings; the string functions of   *)
(* the Go code (HasPrefix, Contains, Cut, filepath.Dir, ...) are computed  *)
(* character by character.  go/packages and go/types are libraries the     *)
(* repository calls: Load and the method-set rules of the Go specification *)
(* are modelled at their call sites.                                       *)
(***************************************************************************)
EXTENDS Integers, Sequences, FiniteSets, TLC

VARIABLES
    source,     \* the codebase on disk: which revision of each package exists
    fset,       \* Indexer.fset: the file set of the build that owns the snapshot
    pkgInfos,   \* Indexer.pkgInfos: import path -> PackageInfo
    typePkgs,   \* Indexer.typePkgs: import path -> type-checked package
    resp,       \* the last answer a tool handler returned
    lastLoad,   \* history: what packages.Load returned to the latest successful Index()
    built,      \* history: the snapshot as it was when Index() last returned nil
    builds,     \* number of builds started (names the file set of a build)
    pc,         \* RebuildSpec: the line Index() has reached
    pending,    \* RebuildSpec: the packages the loop of Index() has yet to visit
    prev,       \* history: the snapshot that the Index() whose answer is outstanding replaced
    rdr,        \* RebuildSpec: a concurrent Finder query
    startup,    \* StartupSpec: run() of cmd/server
    genDecl,    \* DocSpec: the declaration whose doc comments are read
    docMap,     \* DocSpec: the doc map built from it
    req,        \* LengthSpec: the tool request that has arrived
    call,       \* LengthSpec: what became of it
    memFile,    \* MemorySpec: .llm-lens/memories.json on disk
    memMu,      \* MemorySpec: MemoryStore.mu
    memCalls,   \* MemorySpec: the memory-tool handlers that are running
    memLin,     \* history: the map after the successful writes and deletes, each applied when it is saved
    pathArg,    \* PathSpec: the path and the root that isUnderRoot is given
    underRoot,  \* PathSpec: what it returned
    proc        \* WatchSpec: the server process: main, the watcher, the channel runErr

\* The variables of the server: the Indexer, the handlers and run()
serverVars == <<source, fset, pkgInfos, typePkgs, resp, lastLoad, built, builds,
                pc, pending, prev, rdr, startup>>

\* The variables of the parts that are modelled on their own
docVars == <<genDecl, docMap>>

lengthVars == <<req, call>>

memVars == <<memFile, memMu, memCalls, memLin>>

pathVars == <<pathArg, underRoot>>

otherVars == <<docVars, lengthVars, memVars, pathVars, proc>>

vars == <<serverVars, otherVars>>

------------------------------------------------------------------------------
(* Strings *)

Range(s) == {s[i] : i \in DOMAIN s}

Char(s, i) == SubSeq(s, i, i)

\* strings.HasPrefix
HasPrefix(s, p) == Len(p) <= Len(s) /\ SubSeq(s, 1, Len(p)) = p

\* strings.HasSuffix
HasSuffix(s, p) == Len(p) <= Len(s) /\ SubSeq(s, Len(s) - Len(p) + 1, Len(s)) = p

\* strings.Contains
Contains(s, p) == \E i \in 1..(Len(s) - Len(p) + 1) : SubSeq(s, i, i + Len(p) - 1) = p

\* strings.Index for a one-character separator; 0 when sep does not occur
IndexOf(s, sep) ==
    IF \E i \in 1..Len(s) : Char(s, i) = sep
    THEN CHOOSE i \in 1..Len(s) :
            Char(s, i) = sep /\ \A j \in 1..(i - 1) : Char(s, j) # sep
    ELSE 0

\* strings.LastIndex for a one-character separator; 0 when sep does not occur
LastIndexOf(s, sep) ==
    IF \E i \in 1..Len(s) : Char(s, i) = sep
    THEN CHOOSE i \in 1..Len(s) :
            Char(s, i) = sep /\ \A j \in (i + 1)..Len(s) : Char(s, j) # sep
    ELSE 0

\* strings.Cut(s, sep): the text before and after the first sep, and whether
\* sep occurs at all
Cut(s, sep) ==
    LET i == IndexOf(s, sep) IN
    IF i = 0 THEN [before |-> s, after |-> "", found |-> FALSE]
    ELSE [before |-> SubSeq(s, 1, i - 1),
          after  |-> SubSeq(s, i + 1, Len(s)),
          found  |-> TRUE]

\* The characters of identifiers, import paths and file names, in byte order.
Alphabet == "./0123456789ABCDEFGHIJKLMNOPQRSTUVWXYZ_abcdefghijklmnopqrstuvwxyz"

CharRank(c) == CHOOSE i \in 1..Len(Alphabet) : Char(Alphabet, i) = c

\* Go's < on strings: bytewise lexicographic order
RECURSIVE StrLess(_, _)
StrLess(a, b) ==
    IF Len(b) = 0 THEN FALSE
    ELSE IF Len(a) = 0 THEN TRUE
    ELSE IF Head(a) = Head(b) THEN StrLess(Tail(a), Tail(b))
    ELSE CharRank(Head(a)) < CharRank(Head(b))

\* token.IsExported: the name begins with an upper-case letter
IsExported(name) ==
    Len(name) > 0 /\ CharRank(Head(name)) \in CharRank("A")..CharRank("Z")

\* filepath.Dir of a clean absolute path
Dir(path) ==
    LET i == LastIndexOf(path, "/") IN
    IF i <= 1 THEN "/" ELSE SubSeq(path, 1, i - 1)

\* The records of the finite set S as a sequence ordered by their id field
RECURSIVE SortById(_)
SortById(S) ==
    IF S = {} THEN <<>>
    ELSE LET m == CHOOSE x \in S : \A y \in S \ {x} : StrLess(x.id, y.id)
         IN  <<m>> \o SortById(S \ {m})

------------------------------------------------------------------------------
(* The codebase: Go source as the type checker sees it *)

\* A signature: its text as go/types prints it after "func", and its identity
\* under types.Identical, which ignores parameter names
Sig(text, ty) == [text |-> text, ty |-> ty]

SigGreet      == Sig("(name string) string", "(string) string")
SigGreetN     == Sig("(n string) string", "(string) string")
SigGreetLong  == Sig("(name string, polite bool) string", "(string, bool) string")
SigShout      == Sig("() string", "() string")
SigNone       == Sig("()", "()")
SigNew        == Sig("(prefix string) *ex/greeter.English", "(string) *ex/greeter.English")

NoRef == [pkg |-> "", name |-> ""]

\* A method declaration: func (recvName [*]T) name sig
Method(name, ptr, recvName, sig, line) ==
    [name |-> name, ptr |-> ptr, recvName |-> recvName, sig |-> sig, line |-> line]

\* An embedded field, or an embedded interface: [*]pkg.name
Embed(pkg, name, ptr) == [pkg |-> pkg, name |-> name, ptr |-> ptr]

Field(name, type) == [name |-> name, type |-> type]

\* Type declarations.  under is the underlying representation; decl are the
\* methods declared with this type as receiver base; imethods are the methods
\* an interface declares explicitly.
StructT(name, line, fields, embeds, decl) ==
    [name |-> name, under |-> "struct", alias |-> FALSE, target |-> NoRef,
     fields |-> fields, embeds |-> embeds, imethods |-> <<>>, decl |-> decl,
     line |-> line]

IfaceT(name, line, embeds, imethods) ==
    [name |-> name, under |-> "interface", alias |-> FALSE, target |-> NoRef,
     fields |-> <<>>, embeds |-> embeds, imethods |-> imethods, decl |-> <<>>,
     line |-> line]

OtherT(name, line, decl) ==
    [name |-> name, under |-> "other", alias |-> FALSE, target |-> NoRef,
     fields |-> <<>>, embeds |-> <<>>, imethods |-> <<>>, decl |-> decl,
     line |-> line]

\* type name = target
AliasT(name, line, target) ==
    [name |-> name, under |-> "alias", alias |-> TRUE, target |-> target,
     fields |-> <<>>, embeds |-> <<>>, imethods |-> <<>>, decl |-> <<>>,
     line |-> line]

FuncD(name, sig, line) == [name |-> name, sig |-> sig, line |-> line]

VarD(name, type, isConst, line) ==
    [name |-> name, type |-> type, isConst |-> isConst, line |-> line]

\* One package of the codebase.  typed = FALSE is a package for which the
\* loader produced no types.Package.
SrcPkg(path, name, files, typed, tys, fns, vs) ==
    [path |-> path, name |-> name, files |-> files, typed |-> typed,
     types |-> tys, funcs |-> fns, vars |-> vs]

Root        == "/r"               \* Indexer.root
GreeterPkg  == "ex/greeter"
UtilPkg     == "ex/util"
OnlyTestPkg == "ex/onlytest"
SyncPkg     == "sync"
GreeterFile == "/r/greeter/greeter.go"
UtilFile    == "/r/util/util.go"
BrokenFile  == "/r/onlytest/broken.go"

\* tests/testdata/greeter/greeter.go
GreeterRev1 ==
    SrcPkg(GreeterPkg, "greeter", <<GreeterFile>>, TRUE,
      { IfaceT("Greeter", 7, <<>>, <<Method("Greet", FALSE, "", SigGreet, 9)>>),
        StructT("English", 13, <<Field("Prefix", "string")>>, <<>>,
                <<Method("Greet", TRUE, "e", SigGreet, 19),
                  Method("BlankReceiver", TRUE, "_", SigNone, 58)>>),
        StructT("Formal", 24, <<>>, <<>>,
                <<Method("Greet", FALSE, "f", SigGreet, 27)>>),
        StructT("Lockable", 62, <<>>, <<Embed(SyncPkg, "Mutex", FALSE)>>, <<>>),
        StructT("FormalEnglish", 68, <<>>, <<Embed(GreeterPkg, "Formal", FALSE)>>, <<>>) },
      { FuncD("New", SigNew, 38), FuncD("NoReturn", Sig("(s string)", "(string)"), 43) },
      { VarD("DefaultPrefix", "untyped string", TRUE, 32),
        VarD("MaxLength", "int", FALSE, 35) })

\* The same package after an edit: English.Greet takes a value receiver and
\* renames its parameter, Formal.Greet changes its parameters, and the
\* package gains an interface that embeds Greeter, two aliases, a named
\* scalar with a method, unexported names and a free function called Greet;
\* Lockable gains an unexported method of its own.
GreeterRev2 ==
    SrcPkg(GreeterPkg, "greeter", <<GreeterFile>>, TRUE,
      { IfaceT("Greeter", 7, <<>>, <<Method("Greet", FALSE, "", SigGreet, 9)>>),
        IfaceT("Loud", 11, <<Embed(GreeterPkg, "Greeter", FALSE)>>,
               <<Method("Shout", FALSE, "", SigShout, 13)>>),
        StructT("English", 16, <<Field("Prefix", "string")>>, <<>>,
                <<Method("Greet", FALSE, "e", SigGreetN, 19),
                  Method("Shout", TRUE, "e", SigShout, 21),
                  Method("trim", TRUE, "e", SigNone, 23)>>),
        StructT("Formal", 24, <<>>, <<>>,
                <<Method("Greet", FALSE, "f", SigGreetLong, 27)>>),
        StructT("FormalEnglish", 30, <<>>,
                <<Embed(GreeterPkg, "Formal", FALSE), Embed(GreeterPkg, "English", TRUE)>>,
                <<>>),
        AliasT("Salute", 40, [pkg |-> GreeterPkg, name |-> "English"]),
        AliasT("Hello", 41, [pkg |-> GreeterPkg, name |-> "Greeter"]),
        OtherT("Count", 42, <<Method("Greet", FALSE, "c", SigGreet, 43)>>),
        OtherT("count", 45, <<>>),
        StructT("Lockable", 54, <<Field("gen", "int")>>,
                <<Embed(SyncPkg, "Mutex", FALSE)>>,
                <<Method("reset", TRUE, "l", SigNone, 58)>>) },
      { FuncD("New", SigNew, 38), FuncD("Greet", SigGreet, 50),
        FuncD("newCount", SigNone, 52) },
      { VarD("MaxLength", "int", FALSE, 35), VarD("greeting", "string", FALSE, 36) })

\* A second package under the root.  It reuses names of the greeter package
\* for objects of another kind.
UtilRev1 ==
    SrcPkg(UtilPkg, "util", <<UtilFile>>, TRUE,
      { StructT("English", 5, <<>>, <<>>, <<>>),
        StructT("polite", 8, <<>>, <<>>,
                <<Method("Greet", TRUE, "p", SigGreet, 10),
                  Method("Shout", FALSE, "p", SigShout, 12)>>),
        StructT("Wrapper", 14, <<>>, <<Embed(UtilPkg, "polite", FALSE)>>,
                <<Method("Shout", TRUE, "w", SigNone, 16)>>) },
      { FuncD("Formal", SigNone, 20), FuncD("New", SigNone, 22) },
      { VarD("Greeter", "int", FALSE, 30), VarD("Loud", "untyped int", TRUE, 31) })

\* A directory that holds only _test.go files: the loader returns the package
\* with no GoFiles and an empty scope.
OnlyTestRev1 == SrcPkg(OnlyTestPkg, "onlytest", <<>>, TRUE, {}, {}, {})

\* A package for which the loader returns no type information.
OnlyTestRev2 == SrcPkg(OnlyTestPkg, "onlytest", <<BrokenFile>>, FALSE, {}, {}, {})

\* A package with a file that does not type-check: the loader returns it with
\* its errors and with the scope of what the type checker could resolve.
OnlyTestRev3 ==
    SrcPkg(OnlyTestPkg, "onlytest", <<BrokenFile>>, TRUE,
      {}, { FuncD("Half", SigNone, 3) }, {})

\* The standard library's sync package, a dependency outside the root.
SyncSrc ==
    SrcPkg(SyncPkg, "sync", <<"/go/src/sync/mutex.go">>, TRUE,
      { StructT("Mutex", 34, <<>>, <<>>,
                <<Method("Lock", TRUE, "m", SigNone, 46),
                  Method("Unlock", TRUE, "m", SigNone, 63),
                  Method("lockSlow", TRUE, "m", SigNone, 70)>>) },
      {}, {})

\* The codebases the root directory can hold
Sources == [g : {1, 2}, u : {0, 1}, t : {0, 1, 2, 3}]

\* The packages that "./..." matches under the root, in import-path order
RootPkgs(src) ==
    <<IF src.g = 1 THEN GreeterRev1 ELSE GreeterRev2>>
    \o (IF src.t = 1 THEN <<OnlyTestRev1>> ELSE IF src.t = 2 THEN <<OnlyTestRev2>>
        ELSE IF src.t = 3 THEN <<OnlyTestRev3>> ELSE <<>>)
    \o (IF src.u = 1 THEN <<UtilRev1>> ELSE <<>>)

\* Every package the type checker resolves: the root packages and their
\* dependencies
AllPkgs(src) == Range(RootPkgs(src)) \cup {SyncSrc}

------------------------------------------------------------------------------
(* go/types: objects, method sets, interface satisfaction *)

SrcPkgOf(src, path) == CHOOSE p \in AllPkgs(src) : p.path = path

TypeDecl(src, ref) == CHOOSE t \in SrcPkgOf(src, ref.pkg).types : t.name = ref.name

Ref(pkg, name) == [pkg |-> pkg, name |-> name]

\* types.Unalias: the type an alias name denotes
RECURSIVE Unalias(_, _)
Unalias(src, ref) ==
    LET t == TypeDecl(src, ref) IN
    IF t.alias THEN Unalias(src, t.target) ELSE ref

\* types.TypeString(T, nil) of a named type or a pointer to one: the package
\* path qualifies the name
TypeString(ref, ptr) == (IF ptr THEN "*" ELSE "") \o ref.pkg \o "." \o ref.name

\* (*types.Func).Id: an exported name stands for itself, an unexported name
\* is qualified by its package
MethodId(pkg, name) == IF IsExported(name) THEN name ELSE pkg \o "." \o name

\* A method as a candidate of a method set.  depth is the number of embedded
\* fields on the path that reaches it (len(sel.Index()) - 1); callable says
\* whether the receiver form at hand may call it.
Selection(src, m, ref, depth, callable) ==
    [name |-> m.name, id |-> MethodId(ref.pkg, m.name), sig |-> m.sig,
     recvName |-> m.recvName, recv |-> TypeString(ref, m.ptr),
     depth |-> depth, callable |-> callable,
     file |-> Head(SrcPkgOf(src, ref.pkg).files), line |-> m.line]

\* (*types.Interface).Method(i) over all i: the methods an interface declares
\* together with those of the interfaces it embeds
RECURSIVE IfaceAll(_, _)
IfaceAll(src, ref) ==
    LET r == Unalias(src, ref)
        t == TypeDecl(src, r)
    IN  {Selection(src, m, r, 0, TRUE) : m \in Range(t.imethods)}
        \cup UNION {IfaceAll(src, Ref(e.pkg, e.name)) : e \in Range(t.embeds)}

\* Every method reachable from ref by selector syntax, shadowed or not.
\* addr: the receiver is a pointer or addressable, so methods with a pointer
\* receiver may be called.
RECURSIVE Candidates(_, _, _, _)
Candidates(src, ref, addr, depth) ==
    LET r == Unalias(src, ref)
        t == TypeDecl(src, r)
    IN  IF t.under = "interface"
        THEN {[s EXCEPT !.depth = depth] : s \in IfaceAll(src, r)}
        ELSE {Selection(src, m, r, depth, addr \/ ~m.ptr) : m \in Range(t.decl)}
             \cup UNION {Candidates(src, Ref(e.pkg, e.name), addr \/ e.ptr, depth + 1)
                            : e \in Range(t.embeds)}

\* types.NewMethodSet: of the candidates with one name the shallowest wins;
\* two at the same depth hide each other; a method the receiver form may not
\* call is left out but still shadows
MethodSet(src, ref, addr) ==
    LET C == Candidates(src, ref, addr, 0) IN
    {c \in C : /\ c.callable
               /\ \A d \in C \ {c} : d.id = c.id => d.depth > c.depth}

\* The method set of *T.  A pointer to an interface has no methods.
PointerMethodSet(src, ref) ==
    IF TypeDecl(src, Unalias(src, ref)).under = "interface" THEN {}
    ELSE MethodSet(src, ref, TRUE)

\* The objects of a package scope after type checking.  A type name carries
\* what go/types answers about it: whether tn.Type() is a *types.Named, its
\* underlying representation, its method sets by value and by pointer, and,
\* for an interface, its explicit and complete methods.
TypeObj(src, pkg, t) ==
    LET ref == Ref(pkg.path, t.name)
        r   == Unalias(src, ref)
        u   == TypeDecl(src, r)
    IN  [kind |-> "type", name |-> t.name, isAlias |-> t.alias, named |-> ~t.alias,
         under |-> u.under,
         ref |-> r,
         fields |-> u.fields,
         embeds |-> [i \in DOMAIN u.embeds |->
                        TypeString(Ref(u.embeds[i].pkg, u.embeds[i].name), u.embeds[i].ptr)],
         explicit |-> SortById({Selection(src, m, r, 0, TRUE) : m \in Range(u.imethods)}),
         complete |-> IF u.under = "interface" THEN IfaceAll(src, r) ELSE {},
         valSet |-> MethodSet(src, ref, FALSE),
         ptrSet |-> PointerMethodSet(src, ref),
         file |-> IF pkg.files = <<>> THEN "" ELSE Head(pkg.files), line |-> t.line]

FuncObj(pkg, f) ==
    [kind |-> "func", name |-> f.name, sig |-> f.sig,
     file |-> Head(pkg.files), line |-> f.line]

VarObj(pkg, v) ==
    [kind |-> IF v.isConst THEN "const" ELSE "var", name |-> v.name, type |-> v.type,
     file |-> Head(pkg.files), line |-> v.line]

\* *types.Package: the scope maps each declared name to its object
TypesPackage(src, pkg) ==
    LET names == {x.name : x \in pkg.types \cup pkg.funcs \cup pkg.vars} IN
    [nil |-> FALSE, path |-> pkg.path,
     scope |-> [n \in names |->
                 IF \E t \in pkg.types : t.name = n
                 THEN TypeObj(src, pkg, CHOOSE t \in pkg.types : t.name = n)
                 ELSE IF \E f \in pkg.funcs : f.name = n
                 THEN FuncObj(pkg, CHOOSE f \in pkg.funcs : f.name = n)
                 ELSE VarObj(pkg, CHOOSE v \in pkg.vars : v.name = n)]]

NilTypes == [nil |-> TRUE, path |-> "", scope |-> <<>>]

\* (*types.Scope).Lookup; NoObj stands for nil
NoObj == [kind |-> "none", name |-> ""]

Lookup(tp, name) == IF name \in DOMAIN tp.scope THEN tp.scope[name] ELSE NoObj

\* The strings of the finite set S in increasing order
RECURSIVE SortStrings(_)
SortStrings(S) ==
    IF S = {} THEN <<>>
    ELSE LET m == CHOOSE x \in S : \A y \in S \ {x} : StrLess(x, y)
         IN  <<m>> \o SortStrings(S \ {m})

\* (*types.Scope).Names: the declared names, sorted
ScopeNames(tp) == SortStrings(DOMAIN tp.scope)

\* types.Implements(T, iface), given the method set of T: every method of
\* the interface has a method of the same id and an identical signature
Implements(mset, iface) ==
    \A m \in iface : \E s \in mset : s.id = m.id /\ s.sig.ty = m.sig.ty

------------------------------------------------------------------------------
(* internal/indexer: building the snapshot *)

MaxBuilds == 2      \* how many times packages.Load succeeds in one run of the model

\* Go maps: a nil or freshly made map is the empty function
EmptyMap == <<>>

MapPut(m, k, v) == [x \in DOMAIN m \cup {k} |-> IF x = k THEN v ELSE m[x]]

\* token.Pos resolved by the file set: a file and a line
Pos(file, line) == <<file, line>>

\* packages.Load(cfg, "./...") on the codebase src: the packages the pattern
\* matches, each with its files, its syntax and its type-checked scope
Load(src) ==
    [i \in DOMAIN RootPkgs(src) |->
        LET p == RootPkgs(src)[i] IN
        [PkgPath |-> p.path, Name |-> p.name, GoFiles |-> p.files, Syntax |-> p,
         Errors |-> IF BrokenFile \in Range(p.files) THEN <<"type error">> ELSE <<>>,
         Types |-> IF p.typed THEN TypesPackage(src, p) ELSE NilTypes]]

\* strings.Split(path, "/") of a clean absolute path without its empty first
\* part: the names on the way from "/"
RECURSIVE SplitPath(_)
SplitPath(path) ==
    IF path = "" \/ path = "/" THEN <<>>
    ELSE LET rest == SubSeq(path, 2, Len(path))
             n == IndexOf(rest, "/")
         IN  IF n = 0 THEN <<rest>>
             ELSE <<SubSeq(rest, 1, n - 1)>> \o SplitPath(SubSeq(rest, n, Len(rest)))

\* strings.Join(parts, "/")
RECURSIVE JoinPath(_)
JoinPath(parts) ==
    IF parts = <<>> THEN ""
    ELSE IF Len(parts) = 1 THEN parts[1]
    ELSE parts[1] \o "/" \o JoinPath(Tail(parts))

\* How many leading names two paths share
RECURSIVE CommonLen(_, _)
CommonLen(a, b) ==
    IF a = <<>> \/ b = <<>> \/ Head(a) # Head(b) THEN 0
    ELSE 1 + CommonLen(Tail(a), Tail(b))

\* filepath.Rel(root, path) for clean absolute paths: ".." for each name of
\* root after the shared ones, then the names of path after the shared ones
Rel(root, path) ==
    LET base == SplitPath(root)
        targ == SplitPath(path)
        n == CommonLen(base, targ)
        ups == [i \in 1..(Len(base) - n) |-> ".."]
        parts == ups \o SubSeq(targ, n + 1, Len(targ))
    IN  IF parts = <<>> THEN "." ELSE JoinPath(parts)

isUnderRoot(path, root) == ~HasPrefix(Rel(root, path), "..")

\* The function and method declarations of a package's syntax that have a
\* doc comment or a body, by the position of the declared name
FuncDecls(syntax) ==
    {[pos |-> Pos(Head(syntax.files), f.line), name |-> f.name] : f \in syntax.funcs}
    \cup UNION {{[pos |-> Pos(Head(syntax.files), m.line), name |-> m.name]
                    : m \in Range(t.decl)} : t \in syntax.types}

SpecDecls(syntax) ==
    {[pos |-> Pos(Head(syntax.files), d.line), name |-> d.name]
        : d \in syntax.types \cup syntax.vars}

\* The doc comment and the body text the fixtures give a declaration
DocText(name) == "// " \o name
BodyText(name) == "{ /* " \o name \o " */ }"

buildDocMap(syntax) ==
    LET D == FuncDecls(syntax) \cup SpecDecls(syntax) IN
    [p \in {d.pos : d \in D} |-> DocText((CHOOSE d \in D : d.pos = p).name)]

buildBodyMap(syntax) ==
    LET D == FuncDecls(syntax) IN
    [p \in {d.pos : d \in D} |-> BodyText((CHOOSE d \in D : d.pos = p).name)]

\* docs[pos]: the zero value when the map has no such key
MapGet(m, k) == IF k \in DOMAIN m THEN m[k] ELSE ""

\* A doc comment as the parser hands it over: nil, or a comment group with
\* the text that (*ast.CommentGroup).Text() returns for it
NilComment == [nil |-> TRUE, text |-> ""]

CommentGroup(text) == [nil |-> FALSE, text |-> text]

\* strings.TrimSpace
RECURSIVE TrimLeft(_)
TrimLeft(s) ==
    IF s # "" /\ Char(s, 1) \in {" ", "\n"} THEN TrimLeft(SubSeq(s, 2, Len(s))) ELSE s

RECURSIVE TrimRight(_)
TrimRight(s) ==
    IF s # "" /\ Char(s, Len(s)) \in {" ", "\n"}
    THEN TrimRight(SubSeq(s, 1, Len(s) - 1)) ELSE s

TrimSpace(s) == TrimRight(TrimLeft(s))

\* specDoc of an indexer that falls back on the group's comment whatever the
\* number of specs
specDocAnyGroup(doc, groupDoc, specCount) ==
    IF ~doc.nil THEN TrimSpace(doc.text)
    ELSE IF ~groupDoc.nil THEN TrimSpace(groupDoc.text)
    ELSE ""

\* specDoc: the spec's own doc, or the group's doc for a group of one spec
specDoc(doc, groupDoc, specCount) ==
    IF ~doc.nil THEN TrimSpace(doc.text)
    ELSE IF ~groupDoc.nil /\ specCount = 1 THEN TrimSpace(groupDoc.text)
    ELSE ""

\* One spec of a grouped declaration: a TypeSpec has one name, a ValueSpec
\* one or more; names is how many
GenSpec(kind, doc, names) == [kind |-> kind, doc |-> doc, names |-> names]

\* The position of the k-th name of the i-th spec of the declaration
NamePos(i, k) == <<i, k>>

\* The names of a spec that buildDocMap enters: Name of a TypeSpec, Names of
\* a ValueSpec
SpecNames(spec) == IF spec.kind = "type" THEN {1} ELSE 1..spec.names

\* buildDocMap lines 296-310: the entries that one *ast.GenDecl adds to docs
genDeclDocs(d) ==
    LET n == Len(d.specs)
        doc(i) == specDoc(d.specs[i].doc, d.doc, n)
        keys == UNION {{NamePos(i, k) : k \in SpecNames(d.specs[i])}
                          : i \in {x \in 1..n : doc(x) # ""}}
    IN  [p \in keys |-> doc(p[1])]

\* No declaration is being read
NoDecl == [doc |-> NilComment, specs |-> <<>>]

\* No doc map has been built
NoDocMap == [built |-> FALSE, docs |-> EmptyMap]

DocIdle == genDecl = NoDecl /\ docMap = NoDocMap

\* buildSignature of an indexer that prints every receiver as it is named
buildSignatureNamed(name, hasRecv, recvName, recvType, sig) ==
    IF ~hasRecv THEN "func " \o name \o sig.text
    ELSE "func (" \o recvName \o " " \o recvType \o ") " \o name \o sig.text

buildSignature(name, hasRecv, recvName, recvType, sig) ==
    IF ~hasRecv THEN "func " \o name \o sig.text
    ELSE IF recvName = "" \/ recvName = "_"
         THEN "func (" \o recvType \o ") " \o name \o sig.text
         ELSE "func (" \o recvName \o " " \o recvType \o ") " \o name \o sig.text

\* funcInfo of a package-level function
funcInfo(fn, pkgPath, docs, bodies) ==
    [Name |-> fn.name, Package |-> pkgPath, Receiver |-> "",
     Signature |-> buildSignature(fn.name, FALSE, "", "", fn.sig),
     Doc |-> MapGet(docs, Pos(fn.file, fn.line)),
     Body |-> MapGet(bodies, Pos(fn.file, fn.line)),
     IsPromoted |-> FALSE,
     Location |-> [File |-> fn.file, Line |-> fn.line]]

\* funcInfo of a method: the receiver is part of its signature
methodInfo(sel, pkgPath, docs, bodies) ==
    [Name |-> sel.name, Package |-> pkgPath, Receiver |-> sel.recv,
     Signature |-> buildSignature(sel.name, TRUE, sel.recvName, sel.recv, sel.sig),
     Doc |-> MapGet(docs, Pos(sel.file, sel.line)),
     Body |-> MapGet(bodies, Pos(sel.file, sel.line)),
     IsPromoted |-> FALSE,
     Location |-> [File |-> sel.file, Line |-> sel.line]]

\* namedMethods of an indexer that marks no method as promoted
namedMethodsUnmarked(tn, pkgPath, docs, bodies) ==
    LET sels == SortById(tn.ptrSet) IN
    [i \in DOMAIN sels |-> methodInfo(sels[i], pkgPath, docs, bodies)]

\* namedMethods: the method set of *T in the order go/types keeps it (by
\* id); a method reached through an embedded field is marked promoted
namedMethods(tn, pkgPath, docs, bodies) ==
    LET sels == SortById(tn.ptrSet) IN
    [i \in DOMAIN sels |->
        [methodInfo(sels[i], pkgPath, docs, bodies)
            EXCEPT !.IsPromoted = sels[i].depth > 0]]

\* interfaceMethods of an indexer that lists the complete method set
interfaceMethodsComplete(tn, pkgPath, docs, bodies) ==
    LET sels == SortById(tn.complete) IN
    [i \in DOMAIN sels |-> methodInfo(sels[i], pkgPath, docs, bodies)]

interfaceMethods(tn, pkgPath, docs, bodies) ==
    [i \in DOMAIN tn.explicit |-> methodInfo(tn.explicit[i], pkgPath, docs, bodies)]

interfaceEmbeds(tn) == tn.embeds

\* structFields: the named fields; the embedded ones are listed by type
structFields(tn) == [fields |-> tn.fields, embeds |-> tn.embeds]

typeInfo(tn, pkgPath, docs, bodies) ==
    LET ti == [Name |-> tn.name, Package |-> pkgPath, Kind |-> "alias",
               Fields |-> <<>>, Methods |-> <<>>, Embeds |-> <<>>,
               Doc |-> MapGet(docs, Pos(tn.file, tn.line)),
               Location |-> [File |-> tn.file, Line |-> tn.line]]
    IN  IF ~tn.named THEN ti
        ELSE IF tn.under = "struct"
        THEN [ti EXCEPT !.Kind = "struct",
                        !.Fields = structFields(tn).fields,
                        !.Embeds = structFields(tn).embeds,
                        !.Methods = namedMethods(tn, pkgPath, docs, bodies)]
        ELSE IF tn.under = "interface"
        THEN [ti EXCEPT !.Kind = "interface",
                        !.Methods = interfaceMethods(tn, pkgPath, docs, bodies),
                        !.Embeds = interfaceEmbeds(tn)]
        ELSE [ti EXCEPT !.Kind = IF tn.isAlias THEN "alias" ELSE "other",
                        !.Methods = namedMethods(tn, pkgPath, docs, bodies)]

varInfo(obj, pkgPath, docs, isConst) ==
    [Name |-> obj.name, Package |-> pkgPath, Type |-> obj.type, IsConst |-> isConst,
     Doc |-> MapGet(docs, Pos(obj.file, obj.line)),
     Location |-> [File |-> obj.file, Line |-> obj.line]]

\* The objects of kind k in the order of scope.Names()
RECURSIVE ObjectsOf(_, _, _)
ObjectsOf(tp, names, kinds) ==
    IF names = <<>> THEN <<>>
    ELSE (IF tp.scope[Head(names)].kind \in kinds THEN <<tp.scope[Head(names)]>> ELSE <<>>)
         \o ObjectsOf(tp, Tail(names), kinds)

\* indexPackage: the PackageInfo of one loaded package
indexPackage(pkg) ==
    LET docs   == buildDocMap(pkg.Syntax)
        bodies == buildBodyMap(pkg.Syntax)
        names  == ScopeNames(pkg.Types)
        fns    == ObjectsOf(pkg.Types, names, {"func"})
        tns    == ObjectsOf(pkg.Types, names, {"type"})
        vs     == ObjectsOf(pkg.Types, names, {"var", "const"})
    IN  [ImportPath |-> pkg.PkgPath,
         Name  |-> pkg.Name,
         Dir   |-> IF Len(pkg.GoFiles) > 0 THEN Dir(pkg.GoFiles[1]) ELSE "",
         Files |-> pkg.GoFiles,
         Funcs |-> [i \in DOMAIN fns |-> funcInfo(fns[i], pkg.PkgPath, docs, bodies)],
         Types |-> [i \in DOMAIN tns |-> typeInfo(tns[i], pkg.PkgPath, docs, bodies)],
         Vars  |-> [i \in DOMAIN vs |->
                      varInfo(vs[i], pkg.PkgPath, docs, vs[i].kind = "const")]]

\* One iteration of the loop of Index() over the loaded packages, on the two
\* maps of the Indexer
IndexOne(pkg, maps) ==
    IF pkg.Types.nil THEN maps
    ELSE [typePkgs |-> MapPut(maps.typePkgs, pkg.PkgPath, pkg.Types),
          pkgInfos |-> IF Len(pkg.GoFiles) > 0 /\ isUnderRoot(pkg.GoFiles[1], Root)
                       THEN MapPut(maps.pkgInfos, pkg.PkgPath, indexPackage(pkg))
                       ELSE maps.pkgInfos]

RECURSIVE IndexLoop(_, _)
IndexLoop(pkgs, maps) ==
    IF pkgs = <<>> THEN maps
    ELSE IndexLoop(Tail(pkgs), IndexOne(Head(pkgs), maps))

\* FreshMaps of an Index() that fills the maps it finds
KeepMaps(old) == [pkgInfos |-> old.pkgInfos, typePkgs |-> old.typePkgs]

\* Index() lines 67-68: the maps the loop fills are made anew
FreshMaps(old) == [pkgInfos |-> EmptyMap, typePkgs |-> EmptyMap]

------------------------------------------------------------------------------
(* internal/finder: queries over the snapshot *)

\* The concatenation of the sequences of a sequence
RECURSIVE Flatten(_)
Flatten(ss) == IF ss = <<>> THEN <<>> ELSE Head(ss) \o Flatten(Tail(ss))

\* The orders in which a range over the Go map m may visit its keys
KeyOrders(m) ==
    {o \in [1..Cardinality(DOMAIN m) -> DOMAIN m] :
        \A i, j \in DOMAIN o : i # j => o[i] # o[j]}

\* fmt's %q
Quote(s) == "\"" \o s \o "\""

\* matchesQuery of a search that knows the prefix mode only
matchesPrefix(symbolName, query, mode) == HasPrefix(symbolName, query)

matchesQuery(symbolName, query, mode) ==
    IF mode = "prefix" THEN HasPrefix(symbolName, query)
    ELSE IF mode = "contains" THEN Contains(symbolName, query)
    ELSE symbolName = query

SymbolRef(name, pkg, kind, receiver, signature, location) ==
    [Name |-> name, Package |-> pkg, Kind |-> kind, Receiver |-> receiver,
     Signature |-> signature, Location |-> location]

refsFromFuncs(pkg, name, mode) ==
    LET hit(f) == matchesQuery(f.Name, name, mode)
        fs == SelectSeq(pkg.Funcs, hit)
    IN  [i \in DOMAIN fs |->
            SymbolRef(fs[i].Name, pkg.ImportPath, "func", "", fs[i].Signature,
                      fs[i].Location)]

\* For each type in turn: the type itself when its name matches, then those
\* of its methods that match
refsFromTypes(pkg, name, mode) ==
    LET hit(m) == matchesQuery(m.Name, name, mode)
        ofType(t) ==
            (IF matchesQuery(t.Name, name, mode)
             THEN <<SymbolRef(t.Name, pkg.ImportPath, "type", "", "", t.Location)>>
             ELSE <<>>)
            \o LET ms == SelectSeq(t.Methods, hit) IN
               [j \in DOMAIN ms |->
                   SymbolRef(ms[j].Name, pkg.ImportPath, "method", ms[j].Receiver,
                             ms[j].Signature, ms[j].Location)]
    IN  Flatten([i \in DOMAIN pkg.Types |-> ofType(pkg.Types[i])])

refsFromVars(pkg, name, mode) ==
    LET hit(v) == matchesQuery(v.Name, name, mode)
        vs == SelectSeq(pkg.Vars, hit)
    IN  [i \in DOMAIN vs |->
            SymbolRef(vs[i].Name, pkg.ImportPath,
                      IF vs[i].IsConst THEN "const" ELSE "var", "", "", vs[i].Location)]

\* Finder.FindSymbol; order is the order in which the range over the package
\* map visits the packages
FindSymbol(infos, order, name, mode) ==
    Flatten([i \in DOMAIN order |->
        refsFromFuncs(infos[order[i]], name, mode)
        \o refsFromTypes(infos[order[i]], name, mode)
        \o refsFromVars(infos[order[i]], name, mode)])

\* An answer: the value returned and the error (the empty string is nil)
Answer(result, err) == [result |-> result, err |-> err]

\* The types of one indexed package that FindImplementations reports for the
\* interface with the complete method set iface
ImplementorsIn(pkgInfo, tps, iface) ==
    IF pkgInfo.ImportPath \notin DOMAIN tps THEN <<>>
    ELSE LET tp == tps[pkgInfo.ImportPath]
             keep(ti) ==
                /\ ti.Kind # "interface"
                /\ Lookup(tp, ti.Name) # NoObj
                /\ \/ Implements(Lookup(tp, ti.Name).valSet, iface)
                   \/ Implements(Lookup(tp, ti.Name).ptrSet, iface)
         IN  SelectSeq(pkgInfo.Types, keep)

\* ImplementationsError of a search that takes a missing symbol for a symbol
\* that is not a type
ImplementationsErrorNoSymbolCheck(tps, pkgPath, ifaceName) ==
    IF pkgPath \notin DOMAIN tps
    THEN "package " \o Quote(pkgPath) \o " not found in index"
    ELSE LET obj == Lookup(tps[pkgPath], ifaceName) IN
         IF obj = NoObj \/ obj.kind # "type"
         THEN Quote(ifaceName) \o " is not a type"
         ELSE IF obj.under # "interface"
         THEN Quote(ifaceName) \o " is not an interface type"
         ELSE ""

\* The checks FindImplementations makes before it searches, in their order:
\* the error of the first that fails, or "" when all pass
ImplementationsError(tps, pkgPath, ifaceName) ==
    IF pkgPath \notin DOMAIN tps
    THEN "package " \o Quote(pkgPath) \o " not found in index"
    ELSE LET obj == Lookup(tps[pkgPath], ifaceName) IN
         IF obj = NoObj
         THEN "symbol " \o Quote(ifaceName) \o " not found in package " \o Quote(pkgPath)
         ELSE IF obj.kind # "type"
         THEN Quote(ifaceName) \o " is not a type"
         ELSE IF obj.under # "interface"
         THEN Quote(ifaceName) \o " is not an interface type"
         ELSE ""

\* Finder.FindImplementations
FindImplementations(infos, tps, order, pkgPath, ifaceName) ==
    LET err == ImplementationsError(tps, pkgPath, ifaceName) IN
    IF err # "" THEN Answer(<<>>, err)
    ELSE LET iface == Lookup(tps[pkgPath], ifaceName).complete IN
         Answer(Flatten([i \in DOMAIN order |->
                            ImplementorsIn(infos[order[i]], tps, iface)]), "")

\* Finder.GetPackages
GetPackages(infos, order) == [i \in DOMAIN order |-> infos[order[i]]]

\* Finder.GetPackage: the package and whether the map holds it
GetPackage(infos, importPath) == importPath \in DOMAIN infos

------------------------------------------------------------------------------
(* internal/tools: the MCP tool handlers.  A handler is given here for a
   request that carries its required arguments; its answer is the value that
   jsonResult hands to the client, or the error. *)

NoResult == <<>>

\* A filter call: the slice it returns and the caller's slice after the call.
\* The kept elements are appended to a newly made slice, so that the caller's
\* slice is as it was.
Filtered(s, includeUnexported) ==
    LET exported(x) == IsExported(x.Name) IN
    [result |-> IF includeUnexported THEN s ELSE SelectSeq(s, exported),
     arg    |-> s]

\* filterFuncs as a deletion within the caller's slice, which shifts the kept
\* elements to the front and clears the rest
DeleteUnexported(funcs, includeUnexported) ==
    LET kept == Filtered(funcs, includeUnexported).result
        zero == [Name |-> "", Package |-> "", Receiver |-> "", Signature |-> "",
                 Doc |-> "", Body |-> "", IsPromoted |-> FALSE,
                 Location |-> [File |-> "", Line |-> 0]]
    IN  [result |-> kept,
         arg    |-> kept \o [i \in 1..(Len(funcs) - Len(kept)) |-> zero]]

filterFuncs(funcs, includeUnexported) == Filtered(funcs, includeUnexported)

\* filterTypes of a handler that never drops a type
filterNoTypes(typs, includeUnexported) == [result |-> typs, arg |-> typs]

\* filterTypes that also drops the unexported fields and methods of the types
\* it keeps
filterTypesAndMembers(typs, includeUnexported) ==
    LET exported(x) == IsExported(x.Name)
        exportedField(x) == IsExported(x.name)
        strip(t) == [t EXCEPT !.Fields = SelectSeq(@, exportedField),
                              !.Methods = SelectSeq(@, exported)]
        kept == SelectSeq(typs, exported)
    IN  [result |-> IF includeUnexported THEN typs
                    ELSE [i \in DOMAIN kept |-> strip(kept[i])],
         arg    |-> typs]

filterTypes(typs, includeUnexported) == Filtered(typs, includeUnexported)

filterVars(vs, includeUnexported) == Filtered(vs, includeUnexported)

IsAbs(path) == HasPrefix(path, "/")

\* fileMatches of a handler that takes any ending of the path for a match
fileMatchesEnding(locFile, query, isAbs) == HasSuffix(locFile, query)

fileMatches(locFile, query, isAbs) ==
    IF isAbs THEN locFile = query ELSE HasSuffix(locFile, "/" \o query)

pkgSummary(p) ==
    [ImportPath |-> p.ImportPath, Name |-> p.Name, Dir |-> p.Dir,
     FileCount |-> Len(p.Files), FuncCount |-> Len(p.Funcs),
     TypeCount |-> Len(p.Types)]

listPackagesHandler(infos, order, filter) ==
    LET pkgs == GetPackages(infos, order)
        keep(p) == ~(filter # "" /\ ~HasPrefix(p.ImportPath, filter))
        kept == SelectSeq(pkgs, keep)
    IN  Answer([i \in DOMAIN kept |-> pkgSummary(kept[i])], "")

getFileSymbolsHandler(infos, order, file, includeUnexported) ==
    LET isAbs == IsAbs(file)
        pkgs == GetPackages(infos, order)
        inFile(x) == fileMatches(x.Location.File, file, isAbs)
        funcs == Flatten([i \in DOMAIN pkgs |-> SelectSeq(pkgs[i].Funcs, inFile)])
        typs == Flatten([i \in DOMAIN pkgs |-> SelectSeq(pkgs[i].Types, inFile)])
        vs == Flatten([i \in DOMAIN pkgs |-> SelectSeq(pkgs[i].Vars, inFile)])
    IN  Answer([Funcs |-> filterFuncs(funcs, includeUnexported).result,
                Types |-> filterTypes(typs, includeUnexported).result,
                Vars  |-> filterVars(vs, includeUnexported).result], "")

\* PackageNotFound of a handler whose error leaves the package out
PackageNotFoundBare(pkgPath) == "package not found"

PackageNotFound(pkgPath) == "package " \o Quote(pkgPath) \o " not found"

getPackageSymbolsHandler(infos, pkgPath, includeUnexported) ==
    IF ~GetPackage(infos, pkgPath) THEN Answer(NoResult, PackageNotFound(pkgPath))
    ELSE LET pkg == infos[pkgPath] IN
         Answer([Funcs |-> filterFuncs(pkg.Funcs, includeUnexported).result,
                 Types |-> filterTypes(pkg.Types, includeUnexported).result,
                 Vars  |-> filterVars(pkg.Vars, includeUnexported).result], "")

\* The package map after getPackageSymbolsHandler has run: the handler passes
\* the package's own slices to the filters
AfterGetPackageSymbols(infos, pkgPath, includeUnexported) ==
    IF ~GetPackage(infos, pkgPath) THEN infos
    ELSE LET pkg == infos[pkgPath] IN
         [infos EXCEPT ![pkgPath] =
             [pkg EXCEPT !.Funcs = filterFuncs(pkg.Funcs, includeUnexported).arg,
                         !.Types = filterTypes(pkg.Types, includeUnexported).arg,
                         !.Vars  = filterVars(pkg.Vars, includeUnexported).arg]]

findSymbolHandler(infos, order, name, kind, match) ==
    LET refs == FindSymbol(infos, order, name, match)
        ofKind(r) == r.Kind = kind
    IN  Answer(IF kind # "" THEN SelectSeq(refs, ofKind) ELSE refs, "")

\* The first element of s that satisfies name = n, as a sequence of at most one
FirstNamed(s, n) ==
    LET named(x) == x.Name = n
        hits == SelectSeq(s, named)
    IN  IF hits = <<>> THEN <<>> ELSE <<Head(hits)>>

\* getFunctionHandler of a lookup that takes the name after the last "." for
\* the name of a function or of a method of any type, whichever comes first
getFunctionAnyScope(infos, pkgPath, name) ==
    IF ~GetPackage(infos, pkgPath) THEN Answer(NoResult, PackageNotFound(pkgPath))
    ELSE LET pkg == infos[pkgPath]
             i == LastIndexOf(name, ".")
             short == IF i = 0 THEN name ELSE SubSeq(name, i + 1, Len(name))
             all == pkg.Funcs \o Flatten([j \in DOMAIN pkg.Types |-> pkg.Types[j].Methods])
             fn == FirstNamed(all, short)
         IN  IF fn = <<>>
             THEN Answer(NoResult, "function " \o Quote(name)
                             \o " not found in package " \o Quote(pkgPath))
             ELSE Answer(fn[1], "")

getFunctionHandler(infos, pkgPath, name) ==
    IF ~GetPackage(infos, pkgPath) THEN Answer(NoResult, PackageNotFound(pkgPath))
    ELSE LET pkg == infos[pkgPath]
             cut == Cut(name, ".")
         IN  IF cut.found
             THEN LET t == FirstNamed(pkg.Types, cut.before) IN
                  IF t = <<>>
                  THEN Answer(NoResult, "type " \o Quote(cut.before)
                                  \o " not found in package " \o Quote(pkgPath))
                  ELSE LET m == FirstNamed(t[1].Methods, cut.after) IN
                       IF m = <<>>
                       THEN Answer(NoResult, "method " \o Quote(cut.after)
                                       \o " not found on type " \o Quote(cut.before)
                                       \o " in package " \o Quote(pkgPath))
                       ELSE Answer(m[1], "")
             ELSE LET fn == FirstNamed(pkg.Funcs, name) IN
                  IF fn = <<>>
                  THEN Answer(NoResult, "function " \o Quote(name)
                                  \o " not found in package " \o Quote(pkgPath))
                  ELSE Answer(fn[1], "")

getTypeHandler(infos, pkgPath, name) ==
    IF ~GetPackage(infos, pkgPath) THEN Answer(NoResult, PackageNotFound(pkgPath))
    ELSE LET t == FirstNamed(infos[pkgPath].Types, name) IN
         IF t = <<>>
         THEN Answer(NoResult, "type " \o Quote(name) \o " not found in package "
                         \o Quote(pkgPath))
         ELSE Answer(t[1], "")

findImplementationsHandler(infos, tps, order, pkgPath, ifaceName) ==
    LET a == FindImplementations(infos, tps, order, pkgPath, ifaceName) IN
    IF a.err # ""
    THEN Answer(NoResult, "finding implementations of " \o Quote(ifaceName)
                    \o ": " \o a.err)
    ELSE a

\* helpers.go line 14
maxInputLen == 2048

\* An argument of a request: a JSON string, or a value that is no string
StringArg(str) == [isString |-> TRUE, s |-> str]

OtherArg(text) == [isString |-> FALSE, s |-> text]

\* The fields of a request whose value is a string of more than maxInputLen
\* bytes
TooLong(args) == {f \in DOMAIN args : args[f].isString /\ Len(args[f].s) > maxInputLen}

LengthError(field) ==
    "field " \o Quote(field) \o " exceeds maximum length of "
        \o ToString(maxInputLen) \o " bytes"

\* What a handler makes of the request it is given: the model keeps the
\* handler's name and the request
Handled(handler, request) == [handler |-> handler, request |-> request, err |-> ""]

Rejected(err) == [handler |-> "", request |-> [tool |-> "", args |-> <<>>], err |-> err]

\* The first field in the order the map is ranged over whose value is too
\* long
FirstTooLong(args, order) ==
    order[CHOOSE i \in DOMAIN order :
             /\ order[i] \in TooLong(args)
             /\ \A j \in 1..(i - 1) : order[j] \notin TooLong(args)]

\* withLengthCheck of a wrapper that also rejects a string of exactly
\* maxInputLen bytes
withLengthCheckStrict(next, request, order) ==
    LET long == {f \in DOMAIN request.args :
                    request.args[f].isString /\ Len(request.args[f].s) >= maxInputLen}
    IN  IF long # {} THEN Rejected(LengthError(CHOOSE f \in long : TRUE))
        ELSE Handled(next, request)

\* withLengthCheck: the loop ranges over the arguments in the map's order and
\* returns the error at the first string that is too long; otherwise it calls
\* the handler with the request
withLengthCheck(next, request, order) ==
    IF TooLong(request.args) # {}
    THEN Rejected(LengthError(FirstTooLong(request.args, order)))
    ELSE Handled(next, request)

\* Register: the tools and the handler each is bound to; every one is
\* wrapped in withLengthCheck
Register ==
    [list_packages        |-> "listPackagesHandler",
     get_package_symbols  |-> "getPackageSymbolsHandler",
     find_symbol          |-> "findSymbolHandler",
     get_function         |-> "getFunctionHandler",
     get_type             |-> "getTypeHandler",
     find_implementations |-> "findImplementationsHandler"]

NoReq == [tool |-> "", args |-> <<>>]

NoCall == [done |-> FALSE, out |-> Rejected("")]

LengthIdle == req = NoReq /\ call = NoCall

\* internal/tools/memory.go: the memory store

\* The goroutines that handle memory-tool requests at the same time
Procs == {1, 2}

\* delete(m, key)
MapDelete(m, k) == [x \in DOMAIN m \ {k} |-> m[x]]

\* json.MarshalIndent of a map[string]string: the members in key order
MarshalIndent(m) ==
    LET keys == SortStrings(DOMAIN m)
    IN  [i \in DOMAIN keys |-> [key |-> keys[i], value |-> m[keys[i]]]]

\* json.Unmarshal into a map[string]string: of members with one key the last
\* one stays
Unmarshal(data) ==
    [k \in {data[i].key : i \in DOMAIN data} |->
        data[CHOOSE i \in DOMAIN data :
                /\ data[i].key = k
                /\ \A j \in DOMAIN data : data[j].key = k => j <= i].value]

\* The file: absent, opened for writing and still empty, or holding what save
\* wrote
NoFile == [exists |-> FALSE, whole |-> TRUE, data |-> <<>>]

Truncated == [exists |-> TRUE, whole |-> FALSE, data |-> <<>>]

FileOf(m) == [exists |-> TRUE, whole |-> TRUE, data |-> MarshalIndent(m)]

\* MemoryStore.load: no file is the empty map; readFails is os.ReadFile
\* failing for another reason
load(file, readFails) ==
    IF ~file.exists THEN [m |-> EmptyMap, err |-> ""]
    ELSE IF readFails THEN [m |-> EmptyMap, err |-> "reading memories"]
    ELSE IF ~file.whole
    THEN [m |-> EmptyMap, err |-> "parsing memories: unexpected end of JSON input"]
    ELSE [m |-> Unmarshal(file.data), err |-> ""]

MemoryNotFound(key) == "memory " \o Quote(key) \o " not found"

\* What a handler does with the map it loaded: the map to save, if it saves,
\* and its answer otherwise
Outcome(m, save, result, err) == [m |-> m, save |-> save, result |-> result, err |-> err]

\* The handlers of a store whose delete_memory does not look for the key
handleLoadedNoCheck(op, key, value, m) ==
    IF op = "write_memory" THEN Outcome(MapPut(m, key, value), TRUE, "ok", "")
    ELSE IF op = "delete_memory" THEN Outcome(MapDelete(m, key), TRUE, "ok", "")
    ELSE IF op = "read_memory"
    THEN IF key \in DOMAIN m THEN Outcome(m, FALSE, m[key], "")
         ELSE Outcome(m, FALSE, "", MemoryNotFound(key))
    ELSE Outcome(m, FALSE, m, "")

\* writeHandler, readHandler, listHandler and deleteHandler between load and
\* save
handleLoaded(op, key, value, m) ==
    IF op = "write_memory" THEN Outcome(MapPut(m, key, value), TRUE, "ok", "")
    ELSE IF op = "delete_memory"
    THEN IF key \in DOMAIN m THEN Outcome(MapDelete(m, key), TRUE, "ok", "")
         ELSE Outcome(m, FALSE, "", MemoryNotFound(key))
    ELSE IF op = "read_memory"
    THEN IF key \in DOMAIN m THEN Outcome(m, FALSE, m[key], "")
         ELSE Outcome(m, FALSE, "", MemoryNotFound(key))
    ELSE Outcome(m, FALSE, m, "")

\* sync.RWMutex: the goroutine that holds the write lock (0 for none) and
\* those that hold a read lock
FreeMutex == [writer |-> 0, readers |-> {}]

\* A handler that is not running
IdleCall ==
    [pc |-> "idle", op |-> "", key |-> "", value |-> "", m |-> EmptyMap,
     loaded |-> EmptyMap, result |-> "", err |-> "", calls |-> 0]

MemoryIdle ==
    /\ memFile = NoFile
    /\ memMu = FreeMutex
    /\ memCalls = [p \in Procs |-> IdleCall]
    /\ memLin = EmptyMap

\* isUnderRoot has not been called
NoPath == [path |-> "", root |-> ""]

NotCalled == [done |-> FALSE, result |-> FALSE]

PathIdle == pathArg = NoPath /\ underRoot = NotCalled

\* cmd/server: the process.  ppid is what os.Getppid() returns
InitPid == 1

ClientPid == 7

\* The process before main starts: main has started no goroutine, the
\* context is not cancelled, nothing waits on runErr
NoProc ==
    [main |-> "init", watcher |-> "none", ctx |-> "active", runErr |-> "none",
     ppid |-> ClientPid, exit |-> "none", how |-> "", ticks |-> 0]

WatchIdle == proc = NoProc

OtherIdle == DocIdle /\ LengthIdle /\ MemoryIdle /\ PathIdle /\ WatchIdle

------------------------------------------------------------------------------
(* The server as a state machine: Index() builds the snapshot, the tool
   handlers answer from it.  resp is the answer of the operation that ran
   last, until its caller has taken it. *)

NoResp == [op |-> "none", args |-> <<>>, result |-> NoResult, err |-> ""]

Resp(op, args, a) == [op |-> op, args |-> args, result |-> a.result, err |-> a.err]

\* The snapshot that the queries read
Snapshot == [fset |-> fset, pkgInfos |-> pkgInfos, typePkgs |-> typePkgs]

NoSnapshot == [fset |-> 0, pkgInfos |-> EmptyMap, typePkgs |-> EmptyMap]

\* Index() that fills the maps on its first run only
BuildFirstOnly(pkgs, old, n) ==
    LET maps == IF n = 1 THEN IndexLoop(pkgs, FreshMaps(old)) ELSE FreshMaps(old) IN
    [fset |-> n, pkgInfos |-> maps.pkgInfos, typePkgs |-> maps.typePkgs]

\* The snapshot that Index() builds from the loaded packages, as build n
Build(pkgs, old, n) ==
    LET maps == IndexLoop(pkgs, FreshMaps(old)) IN
    [fset |-> n, pkgInfos |-> maps.pkgInfos, typePkgs |-> maps.typePkgs]

\* The arguments that the requests are drawn from
PkgArgs == {GreeterPkg, UtilPkg, OnlyTestPkg, "ex/none"}

SymbolArgs == {"Greet", "English", "Greeter", "New", "Formal", "Eng", "e", "NoSuch"}

KindArgs == {"", "type", "method"}

MatchArgs == {"exact", "prefix", "contains", "fuzzy"}

FuncArgs ==
    {"New", "Greet", "English", "NoSuch", "English.Greet", "English.New",
     "English.NoSuch", "FormalEnglish.Greet", "Lockable.Lock", "Wrapper.Greet",
     "Salute.Greet", "NoSuch.Greet", "English.Greet.x", ".Greet"}

TypeArgs == {"English", "Greeter", "Salute", "New", "NoSuch"}

IfaceArgs == {"Greeter", "Loud", "Hello", "English", "New", "MaxLength", "NoSuch"}

FilterArgs == {"", "ex/", "ex/g", "no"}

FileArgs == {GreeterFile, "greeter.go", "greeter/greeter.go", "eeter.go", "/r/none.go"}

\* A query that runs beside Index(): where it is, the map it ranges over
\* ("live" is the map that idx.pkgInfos names, "retired" a map that Index()
\* has since replaced, whose content is held), what it saw, and the complete
\* package maps that were current at some time since it began
IdleReader ==
    [pc |-> "idle", ref |-> "none", held |-> EmptyMap, seen |-> EmptyMap,
     current |-> {}]

\* The Indexer and the Finder used without run(), as a library
NoStartup == [pc |-> "none", root |-> "dir", err |-> "", registered |-> FALSE]

InitIndexer ==
    /\ source = [g |-> 1, u |-> 0, t |-> 0]
    /\ fset = 0
    /\ pkgInfos = EmptyMap
    /\ typePkgs = EmptyMap
    /\ resp = NoResp
    /\ lastLoad = <<>>
    /\ built = NoSnapshot
    /\ builds = 0
    /\ pc = "idle"
    /\ pending = <<>>
    /\ prev = NoSnapshot
    /\ rdr = IdleReader

\* The server before run() is looked at: an Indexer that has built nothing
ServerIdle == InitIndexer /\ startup = NoStartup

Init == ServerIdle /\ OtherIdle

rebuildVars == <<pc, pending, prev, rdr, startup, otherVars>>

indexVars == <<source, fset, pkgInfos, typePkgs, lastLoad, built, builds>>

\* Index() on the codebase src, as one step: load, replace the maps, index
\* every loaded package, return nil
IndexOkCore ==
    /\ resp = NoResp
    /\ builds < MaxBuilds
    /\ \E src \in Sources :
          LET pkgs == Load(src)
              snap == Build(pkgs, Snapshot, builds + 1)
          IN  /\ source' = src
              /\ lastLoad' = pkgs
              /\ fset' = snap.fset
              /\ pkgInfos' = snap.pkgInfos
              /\ typePkgs' = snap.typePkgs
              /\ built' = snap
    /\ builds' = builds + 1
    /\ prev' = Snapshot
    /\ resp' = Resp("Index", <<>>, Answer(NoResult, ""))
    /\ UNCHANGED <<pc, pending, rdr, otherVars>>

IndexOk == IndexOkCore /\ UNCHANGED startup

\* Index() of an indexer that makes the maps anew before it loads
IndexFailResetCore ==
    /\ resp = NoResp
    /\ resp' = Resp("Index", <<>>, Answer(NoResult, "loading packages"))
    /\ pkgInfos' = EmptyMap
    /\ typePkgs' = EmptyMap
    /\ UNCHANGED <<source, fset, lastLoad, built, builds, pc, pending, prev, rdr, otherVars>>

\* Index() when packages.Load fails: it returns the error and changes nothing
IndexFailCore ==
    /\ resp = NoResp
    /\ resp' = Resp("Index", <<>>, Answer(NoResult, "loading packages"))
    /\ UNCHANGED <<indexVars, pc, pending, prev, rdr, otherVars>>

IndexFail == IndexFailCore /\ UNCHANGED startup

\* The caller takes the answer
Return ==
    /\ resp # NoResp
    /\ resp' = NoResp
    /\ prev' = NoSnapshot
    /\ UNCHANGED <<indexVars, pc, pending, rdr, startup, otherVars>>

\* The handlers are registered once the first Index() has returned
Serving == resp = NoResp /\ builds > 0

listPackages ==
    /\ Serving
    /\ \E filter \in FilterArgs, order \in KeyOrders(pkgInfos) :
          resp' = Resp("listPackages", [filter |-> filter],
                       listPackagesHandler(pkgInfos, order, filter))
    /\ UNCHANGED <<indexVars, rebuildVars>>

getFileSymbols ==
    /\ Serving
    /\ \E file \in FileArgs, inc \in BOOLEAN, bodies \in BOOLEAN,
          order \in KeyOrders(pkgInfos) :
          resp' = Resp("getFileSymbols",
                       [file |-> file, include_unexported |-> inc,
                        include_bodies |-> bodies],
                       getFileSymbolsHandler(pkgInfos, order, file, inc))
    /\ UNCHANGED <<indexVars, rebuildVars>>

getPackageSymbols ==
    /\ Serving
    /\ \E pkgPath \in PkgArgs, inc \in BOOLEAN, bodies \in BOOLEAN :
          /\ resp' = Resp("getPackageSymbols",
                          [package |-> pkgPath, include_unexported |-> inc,
                           include_bodies |-> bodies],
                          getPackageSymbolsHandler(pkgInfos, pkgPath, inc))
          /\ pkgInfos' = AfterGetPackageSymbols(pkgInfos, pkgPath, inc)
    /\ UNCHANGED <<source, fset, typePkgs, lastLoad, built, builds, rebuildVars>>

findSymbol ==
    /\ Serving
    /\ \E name \in SymbolArgs, kind \in KindArgs, match \in MatchArgs,
          order \in KeyOrders(pkgInfos) :
          resp' = Resp("findSymbol", [name |-> name, kind |-> kind, match |-> match],
                       findSymbolHandler(pkgInfos, order, name, kind, match))
    /\ UNCHANGED <<indexVars, rebuildVars>>

getFunction ==
    /\ Serving
    /\ \E pkgPath \in PkgArgs, name \in FuncArgs :
          resp' = Resp("getFunction", [package |-> pkgPath, name |-> name],
                       getFunctionHandler(pkgInfos, pkgPath, name))
    /\ UNCHANGED <<indexVars, rebuildVars>>

getType ==
    /\ Serving
    /\ \E pkgPath \in PkgArgs, name \in TypeArgs :
          resp' = Resp("getType", [package |-> pkgPath, name |-> name],
                       getTypeHandler(pkgInfos, pkgPath, name))
    /\ UNCHANGED <<indexVars, rebuildVars>>

findImplementations ==
    /\ Serving
    /\ \E pkgPath \in PkgArgs, ifaceName \in IfaceArgs, order \in KeyOrders(pkgInfos) :
          resp' = Resp("findImplementations",
                       [package |-> pkgPath, interface |-> ifaceName],
                       findImplementationsHandler(pkgInfos, typePkgs, order,
                                                  pkgPath, ifaceName))
    /\ UNCHANGED <<indexVars, rebuildVars>>

Next ==
    \/ IndexOk
    \/ IndexFail
    \/ Return
    \/ listPackages
    \/ getFileSymbols
    \/ getPackageSymbols
    \/ findSymbol
    \/ getFunction
    \/ getType
    \/ findImplementations

Spec == Init /\ [][Next]_vars

------------------------------------------------------------------------------
(* Index() run again beside a query.  Index() takes no lock and the Finder
   takes none, so the statements of Index() interleave with those of
   Finder.GetPackages.  The reads and writes of the map race; the outcomes
   taken here are those of the statements in some order, and the fatal error
   the runtime raises when it detects a map read during a write. *)

\* Index() lines 48-64: load the packages; pending is what the loop has yet
\* to visit
IndexLoad ==
    /\ pc = "idle"
    /\ resp = NoResp
    /\ builds < MaxBuilds
    /\ \E src \in Sources :
          /\ source' = src
          /\ lastLoad' = Load(src)
          /\ pending' = Load(src)
    /\ prev' = Snapshot
    /\ pc' = "reset"
    /\ UNCHANGED <<fset, pkgInfos, typePkgs, built, builds, resp, rdr, startup, otherVars>>

\* Index() lines 66-68: the file set and the two maps are replaced.  A query
\* that holds the replaced map keeps it as it was.
IndexReset ==
    /\ pc = "reset"
    /\ fset' = builds + 1
    /\ pkgInfos' = FreshMaps(Snapshot).pkgInfos
    /\ typePkgs' = FreshMaps(Snapshot).typePkgs
    /\ rdr' = IF rdr.ref = "live"
              THEN [rdr EXCEPT !.ref = "retired", !.held = pkgInfos]
              ELSE rdr
    /\ pc' = "loop"
    /\ UNCHANGED <<source, lastLoad, built, builds, resp, pending, prev, startup, otherVars>>

\* Index() lines 70-81: one iteration of the loop
IndexStep ==
    /\ pc = "loop"
    /\ pending # <<>>
    /\ LET maps == IndexOne(Head(pending), [pkgInfos |-> pkgInfos, typePkgs |-> typePkgs])
       IN  /\ pkgInfos' = maps.pkgInfos
           /\ typePkgs' = maps.typePkgs
    /\ pending' = Tail(pending)
    /\ UNCHANGED <<source, fset, lastLoad, built, builds, resp, pc, prev, rdr, startup, otherVars>>

\* Index() line 83: return nil
IndexReturn ==
    /\ pc = "loop"
    /\ pending = <<>>
    /\ pc' = "idle"
    /\ builds' = builds + 1
    /\ built' = Snapshot
    /\ resp' = Resp("Index", <<>>, Answer(NoResult, ""))
    /\ rdr' = IF rdr.pc = "idle" THEN rdr
              ELSE [rdr EXCEPT !.current = @ \cup {pkgInfos}]
    /\ UNCHANGED <<source, fset, pkgInfos, typePkgs, lastLoad, pending, prev, startup, otherVars>>

\* Finder.GetPackages, first statement: pkgs := f.idx.PkgInfos()
ReaderCall ==
    /\ builds > 0
    /\ rdr.pc = "idle"
    /\ rdr' = [pc |-> "range", ref |-> "live", held |-> EmptyMap, seen |-> EmptyMap,
               current |-> {built.pkgInfos}]
    /\ UNCHANGED <<indexVars, resp, pc, pending, prev, startup, otherVars>>

\* Finder.GetPackages, the range over the map
ReaderRange ==
    /\ rdr.pc = "range"
    /\ \/ rdr' = [rdr EXCEPT !.pc = "done",
                             !.seen = IF rdr.ref = "live" THEN pkgInfos ELSE rdr.held]
       \/ /\ rdr.ref = "live"
          /\ pc = "loop"
          /\ rdr' = [rdr EXCEPT !.pc = "fatal"]
    /\ UNCHANGED <<indexVars, resp, pc, pending, prev, startup, otherVars>>

\* The query returns what it saw
ReaderReturn ==
    /\ rdr.pc = "done"
    /\ rdr' = IdleReader
    /\ UNCHANGED <<indexVars, resp, pc, pending, prev, startup, otherVars>>

RebuildNext ==
    \/ IndexLoad
    \/ IndexFail /\ pc = "idle"
    \/ IndexReset
    \/ IndexStep
    \/ IndexReturn
    \/ Return
    \/ ReaderCall
    \/ ReaderRange
    \/ ReaderReturn

RebuildSpec == Init /\ [][RebuildNext]_vars

------------------------------------------------------------------------------
(* The claims *)

\* C1: while Index() runs again, every query sees a complete package map, the
\* one of the snapshot before or the one of the snapshot after, never an
\* empty or half-filled one, and no query ends in a fatal error.
\* RebuildSpec violates it: after Index() line 67 and before its loop is
\* over, idx.pkgInfos names a map that the loop has not filled yet.
C1_QuerySeesCompleteSnapshot ==
    /\ rdr.pc # "fatal"
    /\ rdr.pc = "done" => rdr.seen \in rdr.current

\* The loaded packages that Index() enters in the type-scope map, and those
\* it enters in the PackageInfo map
TypedLoaded(pkgs) == {i \in DOMAIN pkgs : ~pkgs[i].Types.nil}

IndexedLoaded(pkgs) ==
    {i \in TypedLoaded(pkgs) :
        Len(pkgs[i].GoFiles) > 0 /\ isUnderRoot(pkgs[i].GoFiles[1], Root)}

IndexReturned == resp.op = "Index" /\ resp.err = ""

\* C2: when Index() has returned nil, the first time or again, the two maps
\* hold the packages of the latest load and nothing else: the keys are the
\* loaded packages that Index() enters, and every entry is the one built from
\* the package of the latest load.
C2_SnapshotIsLatestLoad ==
    IndexReturned =>
        /\ DOMAIN typePkgs = {lastLoad[i].PkgPath : i \in TypedLoaded(lastLoad)}
        /\ DOMAIN pkgInfos = {lastLoad[i].PkgPath : i \in IndexedLoaded(lastLoad)}
        /\ \A i \in TypedLoaded(lastLoad) :
              typePkgs[lastLoad[i].PkgPath] = lastLoad[i].Types
        /\ \A i \in IndexedLoaded(lastLoad) :
              pkgInfos[lastLoad[i].PkgPath] = indexPackage(lastLoad[i])
        /\ lastLoad = Load(source)

\* C2 witness: Index() has returned again, and a package that the replaced
\* snapshot held is not among those of the latest load
C2_Witness ==
    /\ IndexReturned
    /\ builds = 2
    /\ UtilPkg \in DOMAIN prev.pkgInfos
    /\ UtilPkg \notin DOMAIN pkgInfos
    /\ OnlyTestPkg \in DOMAIN prev.typePkgs
    /\ OnlyTestPkg \notin DOMAIN typePkgs

\* C3: no query changes the snapshot: whatever queries have run, with whatever
\* arguments and whether they failed or not, the file set, the package map
\* with every PackageInfo in it, and the type-scope map are as they were when
\* Index() last returned.
C3_QueriesLeaveSnapshot == Snapshot = built

\* C3 witness: getPackageSymbols has answered from the package's own slices
\* and has left the unexported functions out of its answer
C3_Witness ==
    /\ resp.op = "getPackageSymbols"
    /\ resp.err = ""
    /\ Len(resp.result.Funcs) < Len(pkgInfos[resp.args.package].Funcs)
    /\ Len(resp.result.Types) < Len(pkgInfos[resp.args.package].Types)

\* The answer of a findImplementations that found its interface
ImplementationsAnswered == resp.op = "findImplementations" /\ resp.err = ""

\* The type object behind an entry of the package map
ObjOf(ti) == Lookup(typePkgs[ti.Package], ti.Name)

\* The indexed types: the entries of the Types of every indexed package
IndexedTypes ==
    UNION {Range(pkgInfos[p].Types) : p \in DOMAIN pkgInfos}

\* Every method of the interface has a method of the same name and an
\* identical signature in the method set of T or of *T
Satisfies(obj, iface) ==
    \A m \in iface :
        \E x \in obj.valSet \cup obj.ptrSet : x.name = m.name /\ x.sig.ty = m.sig.ty

\* The first half of C4: a non-interface type is in the answer exactly when
\* it satisfies the interface
ImplementationsIffSatisfies ==
    ImplementationsAnswered =>
        LET iface == Lookup(typePkgs[resp.args.package], resp.args.interface).complete IN
        \A ti \in IndexedTypes :
            ObjOf(ti).under # "interface" =>
                (ti \in Range(resp.result) <=> Satisfies(ObjOf(ti), iface))

\* The second half of C4: no entry of the answer is an interface type
NoInterfaceReturned ==
    ImplementationsAnswered =>
        \A ti \in Range(resp.result) : ObjOf(ti).under # "interface"

\* C4: findImplementations(I) holds an indexed non-interface named type T
\* exactly when every method of I, those of its embedded interfaces included,
\* has a method of the same name and identical signature in the method set of
\* T or *T; and it never holds an interface type.
\* Spec violates the second half: an alias of an interface (type Hello =
\* Greeter) is indexed with kind "alias", which the search does not skip.
C4_ImplementationsExact == ImplementationsIffSatisfies /\ NoInterfaceReturned

\* C5: every type in the answer of findImplementations records the form by
\* which it satisfies the interface: "value" when the method set of T does,
\* "pointer" when only that of *T does.
\* Spec violates it: the entries are the TypeInfo records of the snapshot,
\* which have no such field.
C5_ImplementationsRecordForm ==
    ImplementationsAnswered =>
        LET iface == Lookup(typePkgs[resp.args.package], resp.args.interface).complete IN
        \A ti \in Range(resp.result) :
            /\ "ImplementsVia" \in DOMAIN ti
            /\ ti.ImplementsVia =
                  IF Implements(ObjOf(ti).valSet, iface) THEN "value" ELSE "pointer"

\* What the codebase of the latest load declares under a name in a package
\* that was loaded with types: "none" (no such package), "missing",
\* "interface", "type" (a type that is no interface) or "other" (a function,
\* variable or constant)
Declared(pkgPath, name) ==
    LET known == {x \in Range(RootPkgs(source)) : x.typed /\ x.path = pkgPath} IN
    IF known = {} THEN "none"
    ELSE LET sp == CHOOSE x \in known : TRUE IN
         IF \E t \in sp.types : t.name = name
         THEN IF TypeDecl(source, Unalias(source, Ref(pkgPath, name))).under = "interface"
              THEN "interface" ELSE "type"
         ELSE IF \E x \in sp.funcs \cup sp.vars : x.name = name THEN "other"
         ELSE "missing"

\* C6: findImplementations fails in four cases, told apart by their errors
\* and tried in this order: the package is unknown, the symbol does not exist
\* in it, the symbol is not a type, the type is not an interface.  With the
\* error comes no result, and in no other case is there an error.
C6_ImplementationsErrors ==
    resp.op = "findImplementations" =>
        LET pkgPath == resp.args.package
            name == resp.args.interface
            pre == "finding implementations of " \o Quote(name) \o ": "
            d == Declared(pkgPath, name)
            unknown == pre \o "package " \o Quote(pkgPath) \o " not found in index"
            missing == pre \o "symbol " \o Quote(name) \o " not found in package "
                           \o Quote(pkgPath)
            notType == pre \o Quote(name) \o " is not a type"
            notIface == pre \o Quote(name) \o " is not an interface type"
        IN  /\ Cardinality({unknown, missing, notType, notIface, ""}) = 5
            /\ resp.err = CASE d = "none" -> unknown
                            [] d = "missing" -> missing
                            [] d = "other" -> notType
                            [] d = "type" -> notIface
                            [] d = "interface" -> ""
            /\ resp.err # "" => resp.result = NoResult

\* C6 witness: the last of the four checks has failed, on a struct type of a
\* known package
C6_Witness ==
    /\ resp.op = "findImplementations"
    /\ resp.args = [package |-> GreeterPkg, interface |-> "English"]
    /\ resp.err = "finding implementations of \"English\": \"English\" is not an interface type"
    /\ resp.result = NoResult

\* C7: findSymbol with a match mode other than exact, prefix and contains
\* fails with the error "unknown match mode" and searches nothing.
\* Spec violates it: the handler passes the mode on unchecked and the
\* search takes every unknown mode for exact.
C7_UnknownMatchModeFails ==
    (resp.op = "findSymbol" /\ resp.args.match \notin {"exact", "prefix", "contains"}) =>
        /\ Contains(resp.err, "unknown match mode")
        /\ resp.result = NoResult

\* C8: findSymbol(name, kind = type, match = exact) answers with exactly the
\* types named name of all indexed packages: one reference for each, of kind
\* type, with the package and place of the type, and nothing else.
C8_ExactTypeSearch ==
    (resp.op = "findSymbol" /\ resp.args.kind = "type" /\ resp.args.match = "exact") =>
        /\ resp.err = ""
        /\ \A i \in DOMAIN resp.result :
              /\ resp.result[i].Kind = "type"
              /\ resp.result[i].Name = resp.args.name
        /\ {<<r.Package, r.Name, r.Location>> : r \in Range(resp.result)}
              = {<<ti.Package, ti.Name, ti.Location>> :
                    ti \in {t \in IndexedTypes : t.Name = resp.args.name}}
        /\ Len(resp.result)
              = Cardinality({t \in IndexedTypes : t.Name = resp.args.name})

\* C8 witness: the search has found the type English in two packages, while
\* English is also a prefix of nothing else and a part of other names
C8_Witness ==
    /\ resp.op = "findSymbol"
    /\ resp.args = [name |-> "English", kind |-> "type", match |-> "exact"]
    /\ {r.Package : r \in Range(resp.result)} = {GreeterPkg, UtilPkg}
    /\ \E t \in IndexedTypes : t.Name = "FormalEnglish"

\* The answer of a getFunction on an indexed package
FunctionAsked == resp.op = "getFunction" /\ resp.args.package \in DOMAIN pkgInfos

\* The place of the first "." of a name, 0 when it has none
FirstDot(name) ==
    IF \E i \in 1..Len(name) : Char(name, i) = "."
    THEN CHOOSE i \in 1..Len(name) :
            /\ Char(name, i) = "."
            /\ \A j \in 1..(i - 1) : Char(name, j) # "."
    ELSE 0

\* C9: getFunction takes a name with a "." for TypeName.MethodName and looks
\* it up in the method list of the type TypeName of the package, promoted
\* methods included, never among the free functions; it takes a name without
\* "." for a free function and looks it up among the free functions only.
C9_FunctionNameResolution ==
    FunctionAsked =>
        LET pkg == pkgInfos[resp.args.package]
            name == resp.args.name
            dot == FirstDot(name)
            typeName == SubSeq(name, 1, dot - 1)
            methodName == SubSeq(name, dot + 1, Len(name))
            typs == {t \in Range(pkg.Types) : t.Name = typeName}
        IN  IF dot # 0
            THEN /\ resp.err = "" <=>
                       \E t \in typs : \E m \in Range(t.Methods) : m.Name = methodName
                 /\ resp.err = "" =>
                       /\ \E t \in typs : resp.result \in Range(t.Methods)
                       /\ resp.result.Name = methodName
                       /\ resp.result \notin Range(pkg.Funcs)
                 /\ \A t \in typs :
                       t.Kind \in {"struct", "other"} =>
                          \A x \in ObjOf(t).ptrSet :
                             x.name = methodName =>
                                /\ resp.err = ""
                                /\ resp.result.IsPromoted = (x.depth > 0)
                                /\ resp.result.Receiver = x.recv
            ELSE /\ resp.err = "" <=> \E f \in Range(pkg.Funcs) : f.Name = name
                 /\ resp.err = "" =>
                       /\ resp.result \in Range(pkg.Funcs)
                       /\ resp.result.Name = name
                       /\ resp.result.Receiver = ""

\* C9 witness: a promoted method has been found by TypeName.MethodName
C9_Witness ==
    /\ FunctionAsked
    /\ resp.args.name = "Wrapper.Greet"
    /\ resp.err = ""
    /\ resp.result.IsPromoted
    /\ resp.result.Receiver = "*ex/util.polite"

\* The answer is the error of the category cat that names the identifier id
ErrorNames(cat, id) ==
    /\ HasPrefix(resp.err, cat \o " " \o Quote(id) \o " not found")
    /\ resp.result = NoResult

\* C10: getPackageSymbols, getFunction and getType fail when the package is
\* not indexed; getFunction fails with errors of its own for a type that is
\* not found, a method that is not found and a function that is not found;
\* getType fails for a type that is not found.  Each error names what is
\* missing and says what kind of thing it is.
C10_LookupErrors ==
    resp.op \in {"getPackageSymbols", "getFunction", "getType"} =>
        LET pkgPath == resp.args.package IN
        IF pkgPath \notin DOMAIN pkgInfos THEN ErrorNames("package", pkgPath)
        ELSE LET pkg == pkgInfos[pkgPath] IN
             CASE resp.op = "getPackageSymbols" -> resp.err = ""
               [] resp.op = "getType" ->
                    IF \E t \in Range(pkg.Types) : t.Name = resp.args.name
                    THEN resp.err = ""
                    ELSE /\ ErrorNames("type", resp.args.name)
                         /\ Contains(resp.err, "package " \o Quote(pkgPath))
               [] resp.op = "getFunction" ->
                    LET name == resp.args.name
                        dot == FirstDot(name)
                        typeName == SubSeq(name, 1, dot - 1)
                        methodName == SubSeq(name, dot + 1, Len(name))
                        typs == {t \in Range(pkg.Types) : t.Name = typeName}
                    IN  IF dot = 0
                        THEN IF \E f \in Range(pkg.Funcs) : f.Name = name
                             THEN resp.err = ""
                             ELSE ErrorNames("function", name)
                        ELSE IF typs = {} THEN ErrorNames("type", typeName)
                        ELSE IF \E t \in typs : \E m \in Range(t.Methods) : m.Name = methodName
                             THEN resp.err = ""
                             ELSE /\ ErrorNames("method", methodName)
                                  /\ Contains(resp.err, "type " \o Quote(typeName))

\* C10 witness: getFunction has failed for a method that a known type of an
\* indexed package does not have
C10_Witness ==
    /\ resp.op = "getFunction"
    /\ resp.args = [package |-> GreeterPkg, name |-> "English.NoSuch"]
    /\ resp.err = "method \"NoSuch\" not found on type \"English\" in package \"ex/greeter\""

\* The elements of s that the answer may hold: all of them, or those with an
\* exported name
Visible(s, includeUnexported) ==
    {x \in Range(s) : includeUnexported \/ IsExported(x.Name)}

\* out holds exactly the elements of S, each once, and those that come from
\* the sequence s in the order they have in s
HoldsInOrder(out, S, s) ==
    /\ Range(out) = S
    /\ Len(out) = Cardinality(S)
    /\ \A i, j \in DOMAIN out :
          (i < j /\ out[i] \in Range(s) /\ out[j] \in Range(s)) =>
             \E k, l \in DOMAIN s : k < l /\ s[k] = out[i] /\ s[l] = out[j]

\* The funcs, types or vars (sel) of every indexed package that lie in the
\* file asked for
InFile(sel(_), file) ==
    {x \in UNION {Range(sel(pkgInfos[p])) : p \in DOMAIN pkgInfos} :
        IF Char(file, 1) = "/" THEN x.Location.File = file
        ELSE HasSuffix(x.Location.File, "/" \o file)}

FuncsOf(pkg) == pkg.Funcs

TypesOf(pkg) == pkg.Types

VarsOf(pkg) == pkg.Vars

\* C11: getPackageSymbols and getFileSymbols without includeUnexported answer
\* with exactly the funcs, types and vars of the package or file whose names
\* are exported, in their original order; with includeUnexported they answer
\* with every func, type and var of the package or file, unchanged.
C11_UnexportedFilter ==
    /\ (resp.op = "getPackageSymbols" /\ resp.err = "") =>
          LET pkg == pkgInfos[resp.args.package]
              inc == resp.args.include_unexported
          IN  /\ HoldsInOrder(resp.result.Funcs, Visible(pkg.Funcs, inc), pkg.Funcs)
              /\ HoldsInOrder(resp.result.Types, Visible(pkg.Types, inc), pkg.Types)
              /\ HoldsInOrder(resp.result.Vars, Visible(pkg.Vars, inc), pkg.Vars)
              /\ inc => /\ resp.result.Funcs = pkg.Funcs
                        /\ resp.result.Types = pkg.Types
                        /\ resp.result.Vars = pkg.Vars
    /\ resp.op = "getFileSymbols" =>
          LET inc == resp.args.include_unexported
              file == resp.args.file
              vis(x) == inc \/ IsExported(x.Name)
          IN  /\ resp.err = ""
              /\ \A p \in DOMAIN pkgInfos :
                    /\ HoldsInOrder(SelectSeq(resp.result.Funcs, LAMBDA x : x.Package = p),
                          {x \in InFile(FuncsOf, file) : x.Package = p /\ vis(x)},
                          pkgInfos[p].Funcs)
                    /\ HoldsInOrder(SelectSeq(resp.result.Types, LAMBDA x : x.Package = p),
                          {x \in InFile(TypesOf, file) : x.Package = p /\ vis(x)},
                          pkgInfos[p].Types)
                    /\ HoldsInOrder(SelectSeq(resp.result.Vars, LAMBDA x : x.Package = p),
                          {x \in InFile(VarsOf, file) : x.Package = p /\ vis(x)},
                          pkgInfos[p].Vars)
              /\ \A x \in Range(resp.result.Funcs) \cup Range(resp.result.Types)
                          \cup Range(resp.result.Vars) : x.Package \in DOMAIN pkgInfos

\* C11 witness: getFileSymbols without includeUnexported has answered for a
\* file that declares exported and unexported funcs, types and vars
C11_Witness ==
    /\ resp.op = "getFileSymbols"
    /\ ~resp.args.include_unexported
    /\ resp.result.Funcs # <<>>
    /\ resp.result.Types # <<>>
    /\ resp.result.Vars # <<>>
    /\ \E x \in InFile(FuncsOf, resp.args.file) : ~IsExported(x.Name)
    /\ \E x \in InFile(TypesOf, resp.args.file) : ~IsExported(x.Name)
    /\ \E x \in InFile(VarsOf, resp.args.file) : ~IsExported(x.Name)

\* out holds exactly the elements of S, each once
HoldsExactly(out, S) == Range(out) = S /\ Len(out) = Cardinality(S)

\* C12: getFileSymbols answers with exactly the funcs, types and vars whose
\* recorded file equals the path asked for when that path is absolute, or
\* ends with "/" and the path asked for when it is relative; when nothing
\* matches the three lists are empty and there is no error.
C12_FileMatch ==
    resp.op = "getFileSymbols" =>
        LET file == resp.args.file
            vis(x) == resp.args.include_unexported \/ IsExported(x.Name)
        IN  /\ resp.err = ""
            /\ HoldsExactly(resp.result.Funcs, {x \in InFile(FuncsOf, file) : vis(x)})
            /\ HoldsExactly(resp.result.Types, {x \in InFile(TypesOf, file) : vis(x)})
            /\ HoldsExactly(resp.result.Vars, {x \in InFile(VarsOf, file) : vis(x)})
            /\ (InFile(FuncsOf, file) \cup InFile(TypesOf, file) \cup InFile(VarsOf, file) = {})
                  => resp.result = [Funcs |-> <<>>, Types |-> <<>>, Vars |-> <<>>]

\* C12 witness: a relative path with a directory has matched the symbols of
\* one file while another indexed package has symbols in another file
C12_Witness ==
    /\ resp.op = "getFileSymbols"
    /\ resp.args.file = "greeter/greeter.go"
    /\ resp.result.Funcs # <<>>
    /\ \A x \in Range(resp.result.Types) : x.Location.File = GreeterFile
    /\ UtilPkg \in DOMAIN pkgInfos
    /\ \E x \in Range(pkgInfos[UtilPkg].Types) :
          IsExported(x.Name) /\ x \notin Range(resp.result.Types)

\* The declaration of an indexed type in the codebase of the latest load
DeclOf(ti) == TypeDecl(source, Ref(ti.Package, ti.Name))

\* The indexed structs
IndexedStructs == {ti \in IndexedTypes : ti.Kind = "struct"}

\* The structs that the struct ti embeds, as references
EmbeddedStructs(ti) ==
    {Unalias(source, Ref(e.pkg, e.name)) : e \in Range(DeclOf(ti).embeds)}

\* The methods declared on the struct E or promoted into it
MethodsOfEmbedded(E) == MethodSet(source, E, TRUE)

\* The entry of the method list of ti for the method x, marked promoted or not
Listed(ti, x, promoted) ==
    \E m \in Range(ti.Methods) :
        /\ m.Name = x.name
        /\ m.Receiver = x.recv
        /\ m.Location.Line = x.line
        /\ m.IsPromoted = promoted

\* Every method declared directly on the struct is listed as not promoted
DeclaredListed(ti) ==
    \A d \in Range(DeclOf(ti).decl) :
        \E m \in Range(ti.Methods) :
            /\ m.Name = d.name
            /\ m.Location.Line = d.line
            /\ ~m.IsPromoted

StrLeq(a, b) == a = b \/ StrLess(a, b)

IndexedInterfaces == {ti \in IndexedTypes : ti.Kind = "interface"}

\* C15: every TypeInfo of kind interface has no fields; its methods are
\* exactly the methods the interface declares itself; every interface it
\* embeds is named in its embeds, and the methods of that interface are
\* not among its methods.
C15_InterfaceOwnMethodsOnly ==
    \A ti \in IndexedInterfaces :
        LET d == DeclOf(ti) IN
        /\ ti.Fields = <<>>
        /\ {<<m.Name, m.Location.Line>> : m \in Range(ti.Methods)}
              = {<<x.name, x.line>> : x \in Range(d.imethods)}
        /\ Len(ti.Methods) = Cardinality(Range(d.imethods))
        /\ Len(ti.Embeds) = Len(d.embeds)
        /\ \A i \in DOMAIN d.embeds :
              /\ ti.Embeds[i] = d.embeds[i].pkg \o "." \o d.embeds[i].name
              /\ \A x \in IfaceAll(source, Ref(d.embeds[i].pkg, d.embeds[i].name)) :
                    \A m \in Range(ti.Methods) : m.Name # x.name

\* C15 witness: the snapshot holds an interface that declares one method and
\* embeds an interface with another
C15_Witness ==
    \E ti \in IndexedInterfaces :
        /\ ti.Name = "Loud"
        /\ ti.Embeds = <<"ex/greeter.Greeter">>
        /\ Len(ti.Methods) = 1
        /\ ti.Methods[1].Name = "Shout"
        /\ ti.Fields = <<>>

\* The loaded packages that failed to parse or type-check
FailedLoaded(pkgs) == {i \in DOMAIN pkgs : pkgs[i].Errors # <<>>}

\* C16: a package that fails to parse or type-check is left out of the
\* snapshot and does not abort the build: Index() returns nil and every
\* other loaded package under the root is indexed.
\* Spec violates it: Index() leaves out only a package whose Types is nil and
\* never reads the package's errors, so a package that the type checker
\* resolved in part is indexed.
C16_FailedPackageOmitted ==
    IndexReturned =>
        /\ \A i \in FailedLoaded(lastLoad) :
              /\ lastLoad[i].PkgPath \notin DOMAIN pkgInfos
              /\ lastLoad[i].PkgPath \notin DOMAIN typePkgs
        /\ \A i \in IndexedLoaded(lastLoad) \ FailedLoaded(lastLoad) :
              lastLoad[i].PkgPath \in DOMAIN pkgInfos

------------------------------------------------------------------------------
(* cmd/server: run().  It checks the root, makes the Indexer, indexes, and
   only then registers the tools and serves them. *)

\* What the path given as --root names
RootKinds == {"dir", "file", "missing"}

StartupInit ==
    /\ InitIndexer
    /\ OtherIdle
    /\ \E k \in RootKinds :
          startup = [pc |-> "stat", root |-> k, err |-> "", registered |-> FALSE]

\* run() with no check of the root
RunStatUnchecked ==
    /\ startup.pc = "stat"
    /\ startup' = [startup EXCEPT !.pc = "new"]
    /\ UNCHANGED <<indexVars, resp, pc, pending, prev, rdr, otherVars>>

\* run() lines 63-69: os.Stat(*root) and info.IsDir()
RunStat ==
    /\ startup.pc = "stat"
    /\ startup' =
          IF startup.root = "missing"
          THEN [startup EXCEPT !.pc = "exit", !.err = "invalid --root: no such file or directory"]
          ELSE IF startup.root # "dir"
          THEN [startup EXCEPT !.pc = "exit", !.err = "--root " \o Quote(Root) \o " is not a directory"]
          ELSE [startup EXCEPT !.pc = "new"]
    /\ UNCHANGED <<indexVars, resp, pc, pending, prev, rdr, otherVars>>

\* run() lines 71-74: indexer.New(*root), which fails when the path cannot be
\* made absolute
RunNew ==
    /\ startup.pc = "new"
    /\ \E ok \in BOOLEAN :
          startup' = IF ok THEN [startup EXCEPT !.pc = "index"]
                     ELSE [startup EXCEPT !.pc = "exit",
                                          !.err = "creating indexer: resolving root path"]
    /\ UNCHANGED <<indexVars, resp, pc, pending, prev, rdr, otherVars>>

\* run() line 77: idx.Index()
RunIndex ==
    /\ startup.pc = "index"
    /\ IndexOkCore \/ IndexFailCore
    /\ startup' = [startup EXCEPT !.pc = "indexed"]

\* run() lines 77-85: the error of Index() ends run(); otherwise the tools are
\* registered with a Finder over the Indexer
RunRegister ==
    /\ startup.pc = "indexed"
    /\ startup' = IF resp.err # ""
                  THEN [startup EXCEPT !.pc = "exit",
                                       !.err = "indexing codebase: " \o resp.err]
                  ELSE [startup EXCEPT !.pc = "serve", !.registered = TRUE]
    /\ resp' = NoResp
    /\ prev' = NoSnapshot
    /\ UNCHANGED <<indexVars, pc, pending, rdr, otherVars>>

\* run() line 87: server.ServeStdio(s) hands the requests to the handlers
Serve ==
    /\ startup.pc = "serve"
    /\ \/ listPackages
       \/ getFileSymbols
       \/ getPackageSymbols
       \/ findSymbol
       \/ getFunction
       \/ getType
       \/ findImplementations
       \/ Return

StartupNext ==
    \/ RunStat
    \/ RunNew
    \/ RunIndex
    \/ RunRegister
    \/ Serve

StartupSpec == StartupInit /\ [][StartupNext]_vars

\* C17: when the root path does not exist or is not a directory, startup
\* fails with a configuration error before anything is loaded: Index() is
\* never called, there is no snapshot, and no tool is registered or served.
C17_BadRootFailsBeforeLoad ==
    startup.root # "dir" =>
        /\ startup.pc \in {"stat", "exit"}
        /\ startup.pc = "exit" =>
              \/ startup.err = "invalid --root: no such file or directory"
              \/ startup.err = "--root " \o Quote(Root) \o " is not a directory"
        /\ builds = 0
        /\ lastLoad = <<>>
        /\ Snapshot = NoSnapshot
        /\ resp = NoResp
        /\ ~startup.registered

\* C17 witness: run() has ended on a root that is a file
C17_Witness ==
    /\ startup.root = "file"
    /\ startup.pc = "exit"
    /\ startup.err = "--root \"/r\" is not a directory"
    /\ builds = 0

\* The packages of the codebase that the type checker resolved, the
\* dependencies of the root packages among them
ResolvedPaths == {p.path : p \in {q \in AllPkgs(source) : q.typed}}

\* The resolved packages whose first file lies under the root
ResolvedUnderRoot ==
    {p.path : p \in {q \in AllPkgs(source) :
                        /\ q.typed
                        /\ Len(q.files) > 0
                        /\ isUnderRoot(q.files[1], Root)}}

\* C18: after Index() the type-scope map holds every resolved package, the
\* dependencies outside the root among them, and the PackageInfo map holds
\* exactly the resolved packages with files under the root; so every key of
\* the PackageInfo map is a key of the type-scope map.
\* Spec violates it: packages.Load("./...") returns the packages that match
\* the pattern and not their dependencies, and Index() ranges over what Load
\* returns, so the type-scope map never holds a package outside the root.
C18_TypeScopeHoldsDependencies ==
    IndexReturned =>
        /\ ResolvedPaths \subseteq DOMAIN typePkgs
        /\ DOMAIN pkgInfos = ResolvedUnderRoot
        /\ DOMAIN pkgInfos \subseteq DOMAIN typePkgs

\* What does hold of the two maps' keys after Index()
C18_KeysOfRootPackagesOnly ==
    IndexReturned =>
        /\ DOMAIN pkgInfos = ResolvedUnderRoot
        /\ DOMAIN pkgInfos \subseteq DOMAIN typePkgs
        /\ SyncPkg \in ResolvedPaths
        /\ SyncPkg \notin DOMAIN typePkgs

\* The sets of types that findImplementations can return for one request,
\* one for each order in which the package map may be ranged over
ImplementationSets(infos, tps, pkgPath, ifaceName) ==
    {LET a == FindImplementations(infos, tps, o, pkgPath, ifaceName)
     IN  [err |-> a.err, types |-> Range(a.result)] : o \in KeyOrders(infos)}

MethodDecls(m) ==
    UNION {UNION {{d \in Range(t.decl) \cup Range(t.imethods) :
                      d.name = m.Name /\ d.line = m.Location.Line} : t \in q.types}
           : q \in {x \in AllPkgs(source) : x.files # <<>> /\ Head(x.files) = m.Location.File}}

\* The declarations in the package of the function that the entry f lists
FuncDecl(pkg, f) ==
    {d \in SrcPkgOf(source, pkg.ImportPath).funcs : d.name = f.Name /\ d.line = f.Location.Line}

\* C20: the signature string of a method whose receiver has no name or the
\* name "_" is "func (ReceiverType) Name(...) results", the parentheses kept
\* and the name left out; with any other receiver name it is
\* "func (recvName ReceiverType) Name(...) results"; and that of a function
\* without receiver is "func Name(...) results".
C20_SignatureForm ==
    \A p \in DOMAIN pkgInfos :
        /\ \A f \in Range(pkgInfos[p].Funcs) :
              /\ FuncDecl(pkgInfos[p], f) # {}
              /\ \A d \in FuncDecl(pkgInfos[p], f) :
                    f.Signature = "func " \o f.Name \o d.sig.text
        /\ \A ti \in Range(pkgInfos[p].Types) : \A m \in Range(ti.Methods) :
              /\ MethodDecls(m) # {}
              /\ \A d \in MethodDecls(m) :
                    IF d.recvName \in {"", "_"}
                    THEN m.Signature = "func (" \o m.Receiver \o ") " \o m.Name \o d.sig.text
                    ELSE m.Signature = "func (" \o d.recvName \o " " \o m.Receiver \o ") "
                                          \o m.Name \o d.sig.text

\* C20 witness: the indexed package greeter lists the method BlankReceiver,
\* declared with receiver "_", a method with a named receiver, a method of an
\* interface, whose receiver has no name, and the function New
C20_Witness ==
    /\ GreeterPkg \in DOMAIN pkgInfos
    /\ \E ti \in Range(pkgInfos[GreeterPkg].Types) : \E m \in Range(ti.Methods) :
          /\ m.Name = "BlankReceiver"
          /\ m.Signature = "func (*ex/greeter.English) BlankReceiver()"
    /\ \E ti \in Range(pkgInfos[GreeterPkg].Types) : \E m \in Range(ti.Methods) :
          /\ m.Name = "Greet"
          /\ m.Signature = "func (e *ex/greeter.English) Greet(name string) string"
    /\ \E ti \in Range(pkgInfos[GreeterPkg].Types) : \E m \in Range(ti.Methods) :
          /\ ti.Kind = "interface"
          /\ m.Signature = "func (ex/greeter.Greeter) Greet(name string) string"
    /\ \E f \in Range(pkgInfos[GreeterPkg].Funcs) :
          f.Signature = "func New(prefix string) *ex/greeter.English"

------------------------------------------------------------------------------
(* internal/indexer: buildDocMap over one grouped declaration *)

MaxSpecs == 2       \* specs in the declaration
MaxNames == 2       \* names in one ValueSpec

\* The doc comments a declaration or a spec can carry: none, a comment, a
\* comment of directives only, whose text is empty
DocComments(text) == {NilComment, CommentGroup(text \o "\n"), CommentGroup("")}

GenSpecs ==
    {GenSpec("type", c, 1) : c \in DocComments("spec doc")}
    \cup {GenSpec("value", c, k) : c \in DocComments("spec doc"), k \in 1..MaxNames}

\* The grouped declarations the parser can hand over
GenDecls ==
    {[doc |-> g, specs |-> ss] :
        g \in DocComments("group doc"),
        ss \in UNION {[1..n -> GenSpecs] : n \in 1..MaxSpecs}}

DocInit ==
    /\ ServerIdle
    /\ LengthIdle
    /\ MemoryIdle
    /\ PathIdle
    /\ WatchIdle
    /\ genDecl \in GenDecls
    /\ docMap = NoDocMap

\* buildDocMap reads the declaration
BuildDocs ==
    /\ ~docMap.built
    /\ docMap' = [built |-> TRUE, docs |-> genDeclDocs(genDecl)]
    /\ UNCHANGED <<serverVars, genDecl, lengthVars, memVars, pathVars, proc>>

DocNext == BuildDocs

DocSpec == DocInit /\ [][DocNext]_vars

\* C21: the doc of a name declared in a grouped declaration is the doc
\* comment of its own spec when the spec has one; without one it is the
\* comment of the group if and only if the group holds exactly one spec;
\* otherwise it is empty, so the comment of a group of several specs is
\* attributed to none of its names.
C21_SpecDocAttribution ==
    docMap.built =>
        \A i \in DOMAIN genDecl.specs : \A k \in SpecNames(genDecl.specs[i]) :
            LET spec == genDecl.specs[i]
                doc == MapGet(docMap.docs, NamePos(i, k))
            IN  /\ ~spec.doc.nil => doc = TrimSpace(spec.doc.text)
                /\ (spec.doc.nil /\ ~genDecl.doc.nil) =>
                      /\ Len(genDecl.specs) = 1 => doc = TrimSpace(genDecl.doc.text)
                      /\ Len(genDecl.specs) # 1 =>
                            /\ doc = ""
                            /\ NamePos(i, k) \notin DOMAIN docMap.docs
                /\ (spec.doc.nil /\ genDecl.doc.nil) => doc = ""

\* C21 witness: a commented group of two specs has been read; the first spec
\* has its own comment, which is its doc, and the second has none and got no
\* doc
C21_Witness ==
    /\ docMap.built
    /\ genDecl.doc = CommentGroup("group doc\n")
    /\ Len(genDecl.specs) = 2
    /\ genDecl.specs[1].doc = CommentGroup("spec doc\n")
    /\ genDecl.specs[2] = GenSpec("value", NilComment, 2)
    /\ DOMAIN docMap.docs = {NamePos(1, k) : k \in SpecNames(genDecl.specs[1])}
    /\ docMap.docs[NamePos(1, 1)] = "spec doc"

\* C21 witness of the other case: a commented group of one spec without a
\* comment of its own has been read, and each of its names got the group's
\* comment
C21_WitnessSingle ==
    /\ docMap.built
    /\ genDecl.doc = CommentGroup("group doc\n")
    /\ genDecl.specs = <<GenSpec("value", NilComment, 2)>>
    /\ docMap.docs = [p \in {NamePos(1, 1), NamePos(1, 2)} |-> "group doc"]

\* The functions of an answer together with the methods of its types
AnsweredFuncs(result) ==
    Range(result.Funcs) \cup UNION {Range(t.Methods) : t \in Range(result.Types)}

\* The functions of a package together with the methods of its types that
\* are not interfaces: those declared with a body
DeclaredFuncs(pkg) ==
    Range(pkg.Funcs)
    \cup UNION {Range(t.Methods) : t \in {x \in Range(pkg.Types) : x.Kind # "interface"}}

\* The index holds the body of every function and method that the files of
\* an indexed package declare with a body
BodiesExtracted ==
    \A p \in DOMAIN pkgInfos :
        \A f \in DeclaredFuncs(pkgInfos[p]) :
            f.Location.File \in Range(pkgInfos[p].Files) => f.Body # ""

\* C22: the bodies are extracted when the index is built and are left out at
\* the query: getPackageSymbols and getFileSymbols answer with every function
\* and method carrying an empty body unless the request has include_bodies
\* true.
\* Spec violates it: neither handler reads include_bodies or touches Body, so
\* the answer carries the bodies whatever the request says.
C22_BodiesOmittedByDefault ==
    /\ BodiesExtracted
    /\ (resp.op \in {"getPackageSymbols", "getFileSymbols"} /\ resp.err = ""
            /\ ~resp.args.include_bodies) =>
          \A f \in AnsweredFuncs(resp.result) : f.Body = ""

------------------------------------------------------------------------------
(* internal/tools: a request on its way to a registered handler *)

MaxArgs == 2        \* arguments in one request

\* strings.Repeat
RECURSIVE Repeat(_, _)
Repeat(str, n) ==
    IF n = 0 THEN ""
    ELSE LET half == Repeat(str, n \div 2)
         IN  half \o half \o (IF n % 2 = 1 THEN str ELSE "")

ArgFields == {"package", "name", "include_unexported"}

\* Strings below, at and above the limit, and values that are no strings, one
\* of them longer than the limit when written out
ArgValues ==
    {StringArg("hello"), StringArg(Repeat("x", maxInputLen)),
     StringArg(Repeat("x", maxInputLen + 1)),
     OtherArg("42"), OtherArg("true"), OtherArg(Repeat("1", maxInputLen + 1))}

\* The requests a client can send: a registered tool and any arguments, none
\* included
Requests ==
    {[tool |-> t, args |-> a] :
        t \in DOMAIN Register,
        a \in UNION {[F -> ArgValues] :
                        F \in {G \in SUBSET ArgFields : Cardinality(G) <= MaxArgs}}}

LengthInit ==
    /\ ServerIdle
    /\ DocIdle
    /\ MemoryIdle
    /\ PathIdle
    /\ WatchIdle
    /\ req \in Requests
    /\ call = NoCall

\* The server hands the request to what Register bound the tool to
CallTool ==
    /\ ~call.done
    /\ \E order \in KeyOrders(req.args) :
          call' = [done |-> TRUE, out |-> withLengthCheck(Register[req.tool], req, order)]
    /\ UNCHANGED <<serverVars, docVars, req, memVars, pathVars, proc>>

LengthNext == CallTool

LengthSpec == LengthInit /\ [][LengthNext]_vars

\* The string arguments of the request
StringArgs == {f \in DOMAIN req.args : req.args[f].isString}

\* C23: for every tool that Register registers, a request with a string
\* argument of more than 2048 bytes is answered with an error and its handler
\* does not run; a request whose string arguments have at most 2048 bytes
\* each, 2048 included, or that has no string argument or no argument at all,
\* reaches the tool's handler as it came.
C23_LengthCheck ==
    call.done =>
        /\ (\E f \in StringArgs : Len(req.args[f].s) > 2048) =>
              /\ call.out.err # ""
              /\ call.out.handler = ""
              /\ \E f \in StringArgs :
                    /\ Len(req.args[f].s) > 2048
                    /\ call.out.err = "field " \o Quote(f)
                                         \o " exceeds maximum length of 2048 bytes"
        /\ (\A f \in StringArgs : Len(req.args[f].s) <= 2048) =>
              /\ call.out.err = ""
              /\ call.out.handler = Register[req.tool]
              /\ call.out.request = req

\* C23 witness: a request with a string of exactly 2048 bytes and a value
\* that is no string has reached its handler
C23_Witness ==
    /\ call.done
    /\ req.tool = "find_symbol"
    /\ DOMAIN req.args = {"name", "include_unexported"}
    /\ req.args["name"].isString
    /\ Len(req.args["name"].s) = 2048
    /\ ~req.args["include_unexported"].isString
    /\ Len(req.args["include_unexported"].s) > 2048
    /\ call.out = Handled("findSymbolHandler", req)

\* C23 witness of the rejection: one string of the request is one byte too
\* long, and the handler has not run
C23_WitnessRejected ==
    /\ call.done
    /\ DOMAIN req.args = {"package", "name"}
    /\ Len(req.args["package"].s) = 5
    /\ req.args["name"] = StringArg(Repeat("x", 2049))
    /\ call.out.handler = ""
    /\ call.out.err = "field \"name\" exceeds maximum length of 2048 bytes"

------------------------------------------------------------------------------
(* internal/tools: the memory tools, each request handled by a goroutine of
   its own *)

MaxCalls == 1       \* requests one goroutine handles, one after the other

MemKeys == {"a", "b"}

MemValues == {"1", "2"}

MemOps == {"write_memory", "read_memory", "list_memories", "delete_memory"}

\* What the store holds when the requests arrive: no file yet, or a map that
\* earlier requests saved
StoredMaps == {EmptyMap} \cup UNION {[K -> MemValues] : K \in SUBSET MemKeys \ {{}}}

MemoryInit ==
    /\ ServerIdle
    /\ DocIdle
    /\ LengthIdle
    /\ PathIdle
    /\ WatchIdle
    /\ memMu = FreeMutex
    /\ memCalls = [p \in Procs |-> IdleCall]
    /\ \/ memFile = NoFile /\ memLin = EmptyMap
       \/ \E m \in StoredMaps : memFile = FileOf(m) /\ memLin = m

memFrame == UNCHANGED <<serverVars, docVars, lengthVars, pathVars, proc>>

\* A request arrives and its handler has read its arguments
MemCall(p) ==
    /\ memCalls[p].pc \in {"idle", "done"}
    /\ memCalls[p].calls < MaxCalls
    /\ \E op \in MemOps, key \in MemKeys, value \in MemValues :
          memCalls' = [memCalls EXCEPT ![p] =
              [IdleCall EXCEPT !.pc = "lock", !.op = op,
                               !.key = IF op = "list_memories" THEN "" ELSE key,
                               !.value = IF op = "write_memory" THEN value ELSE "",
                               !.calls = memCalls[p].calls]]
    /\ UNCHANGED <<memFile, memMu, memLin>>
    /\ memFrame

\* The handlers that change the map take the write lock
Writes(op) == op \in {"write_memory", "delete_memory"}

\* A store whose handlers all take the read lock
MemLockShared(p) ==
    /\ memCalls[p].pc = "lock"
    /\ memMu.writer = 0
    /\ memMu' = [memMu EXCEPT !.readers = @ \cup {p}]
    /\ memCalls' = [memCalls EXCEPT ![p].pc = "load"]
    /\ UNCHANGED <<memFile, memLin>>
    /\ memFrame

\* ms.mu.Lock() in writeHandler and deleteHandler, ms.mu.RLock() in
\* readHandler and listHandler
MemLock(p) ==
    /\ memCalls[p].pc = "lock"
    /\ IF Writes(memCalls[p].op)
       THEN /\ memMu = FreeMutex
            /\ memMu' = [memMu EXCEPT !.writer = p]
       ELSE /\ memMu.writer = 0
            /\ memMu' = [memMu EXCEPT !.readers = @ \cup {p}]
    /\ memCalls' = [memCalls EXCEPT ![p].pc = "load"]
    /\ UNCHANGED <<memFile, memLin>>
    /\ memFrame

\* ms.load() and what the handler does with the map up to its return or its
\* call of ms.save
MemLoad(p) ==
    /\ memCalls[p].pc = "load"
    /\ \E readFails \in BOOLEAN :
          LET c == memCalls[p]
              l == load(memFile, readFails)
              o == handleLoaded(c.op, c.key, c.value, l.m)
          IN  memCalls' = [memCalls EXCEPT ![p] =
                 IF l.err # "" THEN [c EXCEPT !.pc = "unlock", !.err = l.err]
                 ELSE [c EXCEPT !.pc = IF o.save THEN "save" ELSE "unlock",
                                !.loaded = l.m, !.m = o.m,
                                !.result = o.result, !.err = o.err]]
    /\ UNCHANGED <<memFile, memMu, memLin>>
    /\ memFrame

\* ms.save up to the opening of the file: os.MkdirAll or the opening may
\* fail, and the file is as it was; otherwise os.WriteFile has truncated it
MemSaveOpen(p) ==
    /\ memCalls[p].pc = "save"
    /\ \E ok \in BOOLEAN :
          IF ok
          THEN /\ memFile' = Truncated
               /\ memCalls' = [memCalls EXCEPT ![p].pc = "write"]
          ELSE /\ memFile' = memFile
               /\ memCalls' = [memCalls EXCEPT ![p].pc = "unlock", ![p].result = "",
                                               ![p].err = "creating memories dir"]
    /\ UNCHANGED <<memMu, memLin>>
    /\ memFrame

\* os.WriteFile writes the encoded map
MemSaveWrite(p) ==
    /\ memCalls[p].pc = "write"
    /\ memFile' = FileOf(memCalls[p].m)
    /\ memLin' = IF memCalls[p].op = "write_memory"
                 THEN MapPut(memLin, memCalls[p].key, memCalls[p].value)
                 ELSE MapDelete(memLin, memCalls[p].key)
    /\ memCalls' = [memCalls EXCEPT ![p].pc = "unlock"]
    /\ UNCHANGED memMu
    /\ memFrame

\* The deferred Unlock or RUnlock, and the return
MemUnlock(p) ==
    /\ memCalls[p].pc = "unlock"
    /\ memMu' = [writer |-> IF memMu.writer = p THEN 0 ELSE memMu.writer,
                 readers |-> memMu.readers \ {p}]
    /\ memCalls' = [memCalls EXCEPT ![p].pc = "done", ![p].calls = @ + 1]
    /\ UNCHANGED <<memFile, memLin>>
    /\ memFrame

MemoryNext ==
    \E p \in Procs :
        \/ MemCall(p)
        \/ MemLock(p)
        \/ MemLoad(p)
        \/ MemSaveOpen(p)
        \/ MemSaveWrite(p)
        \/ MemUnlock(p)

MemorySpec == MemoryInit /\ [][MemoryNext]_vars

\* The map that the file holds
Stored == IF memFile.exists THEN Unmarshal(memFile.data) ELSE EmptyMap

\* The handlers that have loaded the map and are about to unlock and return
Returning == {p \in Procs : memCalls[p].pc = "unlock" /\ memCalls[p].err # "reading memories"}

C24_WitnessNotFound ==
    \E p \in Procs :
        /\ memCalls[p].pc = "unlock"
        /\ memCalls[p].op = "read_memory"
        /\ memCalls[p].key = "b"
        /\ DOMAIN memCalls[p].loaded = {"a"}
        /\ memCalls[p].err = "memory \"b\" not found"

C27_WitnessReaderWaits ==
    \E p, q \in Procs :
        /\ memCalls[p].pc = "write"
        /\ memFile = Truncated
        /\ memCalls[q].pc = "lock"
        /\ memCalls[q].op = "read_memory"

------------------------------------------------------------------------------
(* internal/indexer: isUnderRoot over absolute paths *)

MaxDepth == 3       \* names in a path

PathNames == {"r", "s", "r2", "..cache", "x.go"}

\* The clean absolute paths of up to MaxDepth names, "/" among them
AbsPaths ==
    {"/" \o JoinPath(parts) : parts \in UNION {[1..n -> PathNames] : n \in 0..MaxDepth}}

Roots == {"/r", "/r/s", "/"}

PathInit ==
    /\ ServerIdle
    /\ DocIdle
    /\ LengthIdle
    /\ MemoryIdle
    /\ WatchIdle
    /\ \E path \in AbsPaths, root \in Roots : pathArg = [path |-> path, root |-> root]
    /\ underRoot = NotCalled

CheckPath ==
    /\ ~underRoot.done
    /\ underRoot' = [done |-> TRUE, result |-> isUnderRoot(pathArg.path, pathArg.root)]
    /\ UNCHANGED <<serverVars, docVars, lengthVars, memVars, pathArg, proc>>

PathNext == CheckPath

PathSpec == PathInit /\ [][PathNext]_vars

\* path is root or lies below it: the names of root begin the names of path
Descends(path, root) ==
    LET base == SplitPath(root)
        targ == SplitPath(path)
    IN  Len(base) <= Len(targ) /\ SubSeq(targ, 1, Len(base)) = base

\* C25: for absolute paths isUnderRoot(path, root) is true if and only if
\* path is root or a descendant of root; a descendant whose first name below
\* root begins with two dots is under the root, and siblings and ancestors of
\* root are not.
\* PathSpec violates it: isUnderRoot asks whether the relative path begins
\* with the two characters "..", and that of root/..cache/x.go does.
C25_UnderRootIffDescendant ==
    underRoot.done => (underRoot.result <=> Descends(pathArg.path, pathArg.root))

\* What does hold: what isUnderRoot takes for under the root is under it, and
\* a descendant is taken for one unless its first name below root begins
\* with two dots
C25_UnderRootButDotDotNames ==
    underRoot.done =>
        /\ underRoot.result => Descends(pathArg.path, pathArg.root)
        /\ (Descends(pathArg.path, pathArg.root) /\ ~underRoot.result) =>
              LET below == SubSeq(SplitPath(pathArg.path),
                                  Len(SplitPath(pathArg.root)) + 1,
                                  Len(SplitPath(pathArg.path)))
              IN  below # <<>> /\ HasPrefix(below[1], "..")

\* The places in the answer of findSymbol that hold a method
MethodRefs == {i \in DOMAIN resp.result : resp.result[i].Kind = "method"}

\* C26: findSymbol returns each matching method declaration once: no two
\* method references of an answer have the same name, receiver and location,
\* so a method promoted into an embedding type adds no result to that of its
\* declaration; the three declarations of Greet in the greeter fixture give
\* three method results.
\* Spec violates it: namedMethods lists the promoted methods of a type among
\* its methods and refsFromTypes makes a reference of every listed method, so
\* Greet of Formal is returned for Formal and again for FormalEnglish.
C26_MethodReturnedOnce ==
    (resp.op = "findSymbol" /\ resp.err = "") =>
        /\ \A i, j \in MethodRefs :
              (/\ resp.result[i].Name = resp.result[j].Name
               /\ resp.result[i].Receiver = resp.result[j].Receiver
               /\ resp.result[i].Location = resp.result[j].Location) => i = j
        /\ (/\ resp.args.name = "Greet"
            /\ resp.args.match = "exact"
            /\ resp.args.kind \in {"", "method"}
            /\ source = [g |-> 1, u |-> 0, t |-> 0]) =>
              Cardinality(MethodRefs) = 3

\* C26, its first half alone: no method is returned twice
C26_NoMethodTwice ==
    (resp.op = "findSymbol" /\ resp.err = "") =>
        \A i, j \in MethodRefs : resp.result[i] = resp.result[j] => i = j

\* C28: when Index() returns the error of a failed load, the snapshot built
\* before (the file set, the PackageInfo map and the type-scope map) is as it
\* was before the call, so the queries after a failed rebuild answer from the
\* old snapshot.
C28_FailedIndexKeepsSnapshot ==
    [][(resp'.op = "Index" /\ resp'.err # "")
       => /\ fset' = fset
          /\ pkgInfos' = pkgInfos
          /\ typePkgs' = typePkgs
          /\ Snapshot' = built
      ]_vars

\* C28 witness: a second Index() has failed, and the snapshot is that of the
\* first build
C28_Witness ==
    /\ builds = 1
    /\ resp.op = "Index"
    /\ resp.err = "loading packages"
    /\ fset = 1
    /\ DOMAIN pkgInfos = {GreeterPkg, UtilPkg}
    /\ Snapshot = built

\* ---------------------------------------------------------------------------
\* cmd/server: main, watchParent and the goroutine that runs run()
\* ---------------------------------------------------------------------------

\* The ticks of the watcher that find the parent alive are counted up to here
MaxTicks == 1

\* The process is running: os.Exit, log.Fatal and the return of main end
\* every goroutine
Alive == proc.exit = "none"

\* The process starts as the child of an MCP client or of init, with run()
\* not yet started
WatchInit ==
    /\ InitIndexer
    /\ DocIdle
    /\ LengthIdle
    /\ MemoryIdle
    /\ PathIdle
    /\ \E k \in RootKinds :
          startup = [pc |-> "wait", root |-> k, err |-> "", registered |-> FALSE]
    /\ \E pid \in {ClientPid, InitPid} : proc = [NoProc EXCEPT !.ppid = pid]

\* main lines 35-37: log.Fatal(err)
ExitFatal(p) == [p EXCEPT !.main = "exited", !.exit = "1", !.how = "fatal"]

\* main lines 34-37 and 24 with a nil error: main returns, the deferred cancel runs
\* and the process ends with the watcher still in its loop
ExitReturned(p) ==
    [p EXCEPT !.main = "exited", !.exit = "0", !.how = "returned", !.ctx = "done"]

\* main lines 38-39: os.Exit(0)
ExitCancelled(p) == [p EXCEPT !.main = "exited", !.exit = "0", !.how = "cancelled"]

\* main line 34: what follows the receipt of err from runErr
Received(p, err) == IF err = "err" THEN ExitFatal(p) ELSE ExitReturned(p)

\* main line 26: go watchParent(ctx, cancel)
MainGoWatch ==
    /\ Alive
    /\ proc.main = "init"
    /\ proc' = [proc EXCEPT !.main = "goRun", !.watcher = "ticking"]
    /\ UNCHANGED serverVars
    /\ UNCHANGED <<docVars, lengthVars, memVars, pathVars>>

\* main lines 28-31: go func() { runErr <- run() }()
MainGoRun ==
    /\ Alive
    /\ proc.main = "goRun"
    /\ proc' = [proc EXCEPT !.main = "select"]
    /\ startup' = [startup EXCEPT !.pc = "stat"]
    /\ UNCHANGED <<indexVars, resp, pc, pending, prev, rdr>>
    /\ UNCHANGED <<docVars, lengthVars, memVars, pathVars>>

\* main lines 33-40: the select.  It takes one of the cases that can proceed,
\* any of them when both can, and waits when none can
MainSelect ==
    /\ Alive
    /\ proc.main = "select"
    /\ \/ /\ proc.runErr \in {"nil", "err"}
          /\ proc' = Received([proc EXCEPT !.runErr = "received"], proc.runErr)
       \/ /\ proc.ctx = "done"
          /\ proc' = ExitCancelled(proc)
       \/ /\ proc.runErr = "none"
          /\ proc.ctx = "active"
          /\ proc' = [proc EXCEPT !.main = "parked"]
    /\ UNCHANGED serverVars
    /\ UNCHANGED <<docVars, lengthVars, memVars, pathVars>>

\* run() line 87: the requests that ServeStdio hands to the handlers while
\* main waits.  The handlers are those of Serve and none of them reads or
\* writes the state of main; the listing and the symbol search stand for them
RunServe ==
    /\ startup.pc = "serve"
    /\ \/ listPackages
       \/ findSymbol
       \/ Return

\* run(), lines 59-87, in its goroutine
RunStep ==
    /\ Alive
    /\ \/ RunStat
       \/ RunNew
       \/ RunIndex
       \/ RunRegister
       \/ RunServe

\* run() lines 87-90: server.ServeStdio(s) returns, with an error or at the
\* end of the input
RunServeReturns ==
    /\ Alive
    /\ startup.pc = "serve"
    /\ resp = NoResp
    /\ \E e \in {"", "serving MCP: read error"} :
          startup' = [startup EXCEPT !.pc = "exit", !.err = e]
    /\ UNCHANGED <<indexVars, resp, pc, pending, prev, rdr, otherVars>>

\* main line 30: runErr <- run().  The channel has no buffer: a main that
\* waits in the select receives the error at once, otherwise the goroutine
\* waits for main
RunSend ==
    /\ Alive
    /\ startup.pc = "exit"
    /\ proc.runErr = "none"
    /\ LET err == IF startup.err = "" THEN "nil" ELSE "err" IN
       proc' = IF proc.main = "parked"
               THEN Received([proc EXCEPT !.runErr = "received"], err)
               ELSE [proc EXCEPT !.runErr = err]
    /\ UNCHANGED serverVars
    /\ UNCHANGED <<docVars, lengthVars, memVars, pathVars>>

\* The parent process dies and init adopts the server
ParentDies ==
    /\ Alive
    /\ proc.ppid # InitPid
    /\ proc' = [proc EXCEPT !.ppid = InitPid]
    /\ UNCHANGED serverVars
    /\ UNCHANGED <<docVars, lengthVars, memVars, pathVars>>

\* watchParent whose check of the parent never cancels
WatchTickNoCancel ==
    /\ Alive
    /\ proc.watcher = "ticking"
    /\ proc.ticks < MaxTicks
    /\ proc' = [proc EXCEPT !.ticks = @ + 1]
    /\ UNCHANGED serverVars
    /\ UNCHANGED <<docVars, lengthVars, memVars, pathVars>>

\* watchParent lines 46-56: a tick of the ticker.  With os.Getppid() == 1 it
\* cancels the context and returns, and a main that waits in the select
\* takes ctx.Done() at once.  The case ctx.Done() of the watcher (line 48)
\* can proceed only after the deferred cancel of main, when the process ends
WatchTick ==
    /\ Alive
    /\ proc.watcher = "ticking"
    /\ IF proc.ppid = InitPid
       THEN LET p == [proc EXCEPT !.ctx = "done", !.watcher = "returned"] IN
            proc' = IF proc.main = "parked" THEN ExitCancelled(p) ELSE p
       ELSE /\ proc.ticks < MaxTicks
            /\ proc' = [proc EXCEPT !.ticks = @ + 1]
    /\ UNCHANGED serverVars
    /\ UNCHANGED <<docVars, lengthVars, memVars, pathVars>>

WatchNext ==
    \/ MainGoWatch
    \/ MainGoRun
    \/ MainSelect
    \/ RunStep
    \/ RunServeReturns
    \/ RunSend
    \/ ParentDies
    \/ WatchTick

\* The ticker fires every parentCheckInterval and the main goroutine is
\* scheduled; run() may block for ever
WatchSpec ==
    /\ WatchInit
    /\ [][WatchNext]_vars
    /\ WF_proc(WatchTick)
    /\ WF_proc(MainGoWatch \/ MainGoRun \/ MainSelect)

\* How the process ended agrees with what the select of main took
ExitStatus ==
    /\ (proc.exit # "none") <=> (proc.how # "")
    /\ proc.how = "cancelled" =>
          /\ proc.exit = "0"
          /\ proc.ppid = InitPid
          /\ proc.ctx = "done"
    /\ proc.how = "fatal" =>
          /\ proc.exit = "1"
          /\ startup.pc = "exit"
          /\ startup.err # ""
    /\ proc.how = "returned" =>
          /\ proc.exit = "0"
          /\ startup.pc = "exit"
          /\ startup.err = ""
          /\ proc.watcher \in {"ticking", "returned"}

\* The context is cancelled by the parent check alone while main runs, and a
\* main that waits in the select never outlives what it waits for
NextCheckEnds ==
    /\ (Alive /\ proc.ctx = "done") => (proc.ppid = InitPid /\ proc.main # "parked")
    /\ (Alive /\ proc.main = "parked") => proc.runErr = "none"

\* C29: once the parent pid is 1 the process eventually exits, with status 0
\* unless main received an error of run() before; it does so at the parent
\* check, whether run() is indexing, serving or has not started.  An error
\* of run() that main receives ends the process with a failure, and a nil
\* ends it normally with the watcher still running.
C29_ExitsWhenOrphaned ==
    /\ [](ExitStatus /\ NextCheckEnds)
    /\ (proc.ppid = InitPid) ~> (proc.exit = "0" \/ proc.how = "fatal")

\* C29 witness: the parent check has ended the process with status 0 while
\* run() was still in Index()
C29_Witness ==
    /\ proc.how = "cancelled"
    /\ proc.exit = "0"
    /\ startup.pc = "index"

\* C29 witness: the same while run() was blocked in ServeStdio
C29_WitnessServing ==
    /\ proc.how = "cancelled"
    /\ startup.pc = "serve"

\* C29 witness: run() returned an error and the process failed, the parent
\* alive
C29_WitnessFatal ==
    /\ proc.how = "fatal"
    /\ proc.ppid = ClientPid

\* C29 witness: run() returned nil and main returned with the watcher in its
\* loop
C29_WitnessReturned ==
    /\ proc.how = "returned"
    /\ proc.watcher = "ticking"

\* The answer of getPackageSymbols or getFileSymbols to a request that leaves
\* the unexported symbols out
ExportedAnswer ==
    /\ resp.op \in {"getPackageSymbols", "getFileSymbols"}
    /\ resp.err = ""
    /\ ~resp.args.include_unexported

C30_WitnessField ==
    /\ ExportedAnswer
    /\ resp.op = "getFileSymbols"
    /\ \E i \in DOMAIN resp.result.Types :
          LET t == resp.result.Types[i] IN
          \E j \in DOMAIN t.Fields : ~IsExported(t.Fields[j].name)

====
